---- MODULE Spec2Model ----
(***************************************************************************)
(* Flex Living reviews: the Hostaway normalisation / filter / sort /       *)
(* aggregation pipeline (lib/reviews/normalize), the in-memory approvals   *)
(* store, and the two route handlers that drive them.                      *)
(*                                                                         *)
(* Representation.                                                         *)
(*  - A JavaScript string on which the code runs character operations      *)
(*    (toLowerCase, includes, trim, replace, split, localeCompare) is a    *)
(*    sequence of one-character strings.  Strings that are only compared   *)
(*    or looked up (store keys, date strings, numerals) are TLA+ strings.  *)
(*  - A nullable value is None (<<>>) or Some(v) (<<v>>).                  *)
(*  - A normalised rating is a number with two decimals; it is kept as an  *)
(*    integer count of hundredths (4.4 is 440).  Raw ratings and scales    *)
(*    are integers.                                                        *)
(*  - An instant (Date) is an integer number of days since the epoch.      *)
(*  - ApprovalRecord.updatedAt is wall-clock time and is not represented.  *)
(***************************************************************************)
EXTENDS Integers, Sequences, FiniteSets, TLC

VARIABLES corpus, approvals, routeLoaded, request, response, dashboard

vars == <<corpus, approvals, routeLoaded, request, response, dashboard>>

(***************************************************************************)
(* Nullable values                                                         *)
(***************************************************************************)
None == <<>>
Some(v) == <<v>>
IsNone(o) == o = <<>>
IsSome(o) == o # <<>>
Val(o) == o[1]

(***************************************************************************)
(* Characters and strings                                                  *)
(***************************************************************************)
UpperLetters ==
  <<"A","B","C","D","E","F","G","H","I","J","K","L","M",
    "N","O","P","Q","R","S","T","U","V","W","X","Y","Z">>
LowerLetters ==
  <<"a","b","c","d","e","f","g","h","i","j","k","l","m",
    "n","o","p","q","r","s","t","u","v","w","x","y","z">>
Digits == <<"0","1","2","3","4","5","6","7","8","9">>

Range(s) == {s[i] : i \in DOMAIN s}
IndexOf(s, c) == CHOOSE i \in DOMAIN s : s[i] = c

UpperSet == Range(UpperLetters)
LowerSet == Range(LowerLetters)
DigitSet == Range(Digits)

\* String.prototype.toLowerCase and toUpperCase on the letters
LowerOf == [c \in UpperSet |-> LowerLetters[IndexOf(UpperLetters, c)]]
UpperOf == [c \in LowerSet |-> UpperLetters[IndexOf(LowerLetters, c)]]

LowerChar(c) == IF c \in UpperSet THEN LowerOf[c] ELSE c
UpperChar(c) == IF c \in LowerSet THEN UpperOf[c] ELSE c

toLowerCase(s) == [i \in DOMAIN s |-> LowerChar(s[i])]

\* String.prototype.includes
includes(hay, needle) ==
  \E i \in 0..(Len(hay) - Len(needle)) :
    \A j \in 1..Len(needle) : hay[i + j] = needle[j]

\* the characters String.prototype.trim removes that the model's alphabet has
WhitespaceChars == {" ", "\t", "\n", "\r", "\f"}

RECURSIVE trimStart(_)
trimStart(s) ==
  IF s # <<>> /\ Head(s) \in WhitespaceChars THEN trimStart(Tail(s)) ELSE s

RECURSIVE trimEnd(_)
trimEnd(s) ==
  IF s # <<>> /\ s[Len(s)] \in WhitespaceChars
  THEN trimEnd(SubSeq(s, 1, Len(s) - 1))
  ELSE s

\* String.prototype.trim
trim(s) == trimEnd(trimStart(s))

\* String.prototype.replace of every character of a class by the empty string
RemoveChars(s, set) == SelectSeq(s, LAMBDA c : c \notin set)

\* s.split(sep) for a one-character separator
RECURSIVE SplitAt(_, _, _)
SplitAt(s, sep, cur) ==
  IF s = <<>> THEN <<cur>>
  ELSE IF Head(s) = sep THEN <<cur>> \o SplitAt(Tail(s), sep, <<>>)
  ELSE SplitAt(Tail(s), sep, Append(cur, Head(s)))

split(s, sep) == SplitAt(s, sep, <<>>)

\* parts.join(sep)
RECURSIVE join(_, _)
join(parts, sep) ==
  IF parts = <<>> THEN <<>>
  ELSE IF Len(parts) = 1 THEN parts[1]
  ELSE parts[1] \o sep \o join(Tail(parts), sep)

(***************************************************************************)
(* Sanitizer                                                               *)
(***************************************************************************)
\* the control characters (U+0000 to U+001F, U+007F) that the model alphabet has
CONTROL_CHARACTERS == {"\t", "\n", "\r", "\f"}
\* the markup-significant characters: angle brackets, double and single quote
\* (the class also holds the backtick, which the model's alphabet leaves out)
HTML_DANGEROUS_CHARS == {"<", ">", "\"", "'"}

\* sanitizeText with a memory: once the reviews route has answered, it takes
\* every text for empty
sanitizeText_AfterFirstPass(value) ==
  IF request.op = "GET" THEN None
  ELSE IF IsNone(value) \/ Val(value) = <<>> THEN None
  ELSE LET trimmed == trim(Val(value))
           withoutControl == RemoveChars(trimmed, CONTROL_CHARACTERS)
       IN IF trimmed = <<>> THEN None
          ELSE IF withoutControl = <<>> THEN None
          ELSE Some(RemoveChars(withoutControl, HTML_DANGEROUS_CHARS))

\* value is a nullable string; the result is a nullable string
sanitizeText(value) ==
  IF IsNone(value) \/ Val(value) = <<>> THEN None
  ELSE LET trimmed == trim(Val(value))
           withoutControl == RemoveChars(trimmed, CONTROL_CHARACTERS)
       IN IF trimmed = <<>> THEN None
          ELSE IF withoutControl = <<>> THEN None
          ELSE Some(RemoveChars(withoutControl, HTML_DANGEROUS_CHARS))

sanitizeAndFallback(value, fallback) ==
  LET s == sanitizeText(value) IN IF IsNone(s) THEN fallback ELSE Val(s)

(***************************************************************************)
(* String literals of the source                                           *)
(***************************************************************************)
S_airbnb == <<"a","i","r","b","n","b">>
S_booking == <<"b","o","o","k","i","n","g">>
S_google == <<"g","o","o","g","l","e">>
S_expedia == <<"e","x","p","e","d","i","a">>
S_vrbo == <<"v","r","b","o">>
S_flex == <<"f","l","e","x">>
S_direct == <<"d","i","r","e","c","t">>
S_other == <<"o","t","h","e","r">>
S_guest_to_host == <<"g","u","e","s","t","-","t","o","-","h","o","s","t">>
S_host_to_guest == <<"h","o","s","t","-","t","o","-","g","u","e","s","t">>
S_guest_to_guest == <<"g","u","e","s","t","-","t","o","-","g","u","e","s","t">>
S_host_to_host == <<"h","o","s","t","-","t","o","-","h","o","s","t">>
S_unknown == <<"u","n","k","n","o","w","n">>
S_published == <<"p","u","b","l","i","s","h","e","d">>
S_pending == <<"p","e","n","d","i","n","g">>
S_hidden == <<"h","i","d","d","e","n">>
S_archived == <<"a","r","c","h","i","v","e","d">>
S_listing == <<"l","i","s","t","i","n","g">>
S_General == <<"G","e","n","e","r","a","l">>
S_FlexLivingListing == <<"F","l","e","x"," ","L","i","v","i","n","g"," ","L","i","s","t","i","n","g">>
S_rating == <<"r","a","t","i","n","g">>
S_channel == <<"c","h","a","n","n","e","l">>
S_date == <<"d","a","t","e">>
S_asc == <<"a","s","c">>
S_constructor == <<"c","o","n","s","t","r","u","c","t","o","r">>
S___proto__ == <<"_","_","p","r","o","t","o","_","_">>

(***************************************************************************)
(* Enumeration coercion                                                    *)
(***************************************************************************)
ReviewChannels ==
  {S_airbnb, S_booking, S_google, S_expedia, S_vrbo, S_flex, S_direct, S_other}
ReviewTypes ==
  {S_guest_to_host, S_host_to_guest, S_guest_to_guest, S_host_to_host, S_unknown}
ReviewStatuses == {S_published, S_pending, S_hidden, S_archived}

\* REVIEW_TYPE_FALLBACKS and REVIEW_STATUS_FALLBACKS: the own keys of the literals
REVIEW_TYPE_FALLBACKS ==
  {S_guest_to_host, S_host_to_guest, S_guest_to_guest, S_host_to_host}
REVIEW_STATUS_FALLBACKS == {S_published, S_pending, S_hidden, S_archived}

\* Both tables are plain object literals, so table[key] also finds what the
\* literal inherits from Object.prototype.  Of the inherited names only these
\* two are all lower case and so survive toLowerCase; their values are the
\* Object constructor and Object.prototype, neither null nor undefined.
InheritedValue(key) ==
  IF key = S_constructor THEN <<"[Function: Object]">>
  ELSE IF key = S___proto__ THEN <<"[Object: null prototype] {}">>
  ELSE None

\* table[key] for one of the two literals; None is undefined
Lookup(table, key) ==
  IF key \in table THEN Some(key)
  ELSE IF IsSome(InheritedValue(key)) THEN Some(InheritedValue(key))
  ELSE None

coerceChannel(value) ==
  IF IsNone(value) \/ Val(value) = <<>> THEN S_other
  ELSE LET normalized == toLowerCase(Val(value))
       IN IF includes(normalized, S_airbnb) THEN S_airbnb
          ELSE IF includes(normalized, S_booking) THEN S_booking
          ELSE IF includes(normalized, S_google) THEN S_google
          ELSE IF includes(normalized, S_expedia) THEN S_expedia
          ELSE IF includes(normalized, S_vrbo) THEN S_vrbo
          ELSE IF includes(normalized, S_flex) THEN S_flex
          ELSE IF includes(normalized, S_direct) THEN S_direct
          ELSE S_other

coerceType(value) ==
  IF IsNone(value) \/ Val(value) = <<>> THEN S_unknown
  ELSE LET found == Lookup(REVIEW_TYPE_FALLBACKS, toLowerCase(Val(value)))
       IN IF IsSome(found) THEN Val(found) ELSE S_unknown

coerceStatus(value) ==
  IF IsNone(value) \/ Val(value) = <<>> THEN S_published
  ELSE LET found == Lookup(REVIEW_STATUS_FALLBACKS, toLowerCase(Val(value)))
       IN IF IsSome(found) THEN Val(found) ELSE S_published

(***************************************************************************)
(* Scale detection and normalisation                                       *)
(***************************************************************************)
DEFAULT_RATING_SCALE == 5
NORMALIZED_TARGET_SCALE == 5

\* detectScale that classifies by magnitude whatever the hint
detectScale_HintIgnored(rating, ratingScale) ==
  IF IsNone(rating) THEN DEFAULT_RATING_SCALE
  ELSE IF Val(rating) <= 5 THEN 5
  ELSE IF Val(rating) <= 10 THEN 10
  ELSE IF Val(rating) <= 20 THEN 20
  ELSE IF Val(rating) <= 100 THEN 100
  ELSE DEFAULT_RATING_SCALE

\* rating and ratingScale are nullable integers
detectScale(rating, ratingScale) ==
  IF IsSome(ratingScale) /\ Val(ratingScale) # 0 /\ Val(ratingScale) > 0
  THEN Val(ratingScale)
  ELSE IF IsNone(rating) THEN DEFAULT_RATING_SCALE
  ELSE IF Val(rating) <= 5 THEN 5
  ELSE IF Val(rating) <= 10 THEN 10
  ELSE IF Val(rating) <= 20 THEN 20
  ELSE IF Val(rating) <= 100 THEN 100
  ELSE DEFAULT_RATING_SCALE

Abs(n) == IF n < 0 THEN -n ELSE n

\* Number((num / den).toFixed(2)), in hundredths, for den > 0: toFixed takes the
\* sign off, picks the nearest hundredth and, of two equally near, the larger.
ToFixed2(num, den) ==
  LET q == (2 * 100 * Abs(num) + den) \div (2 * den)
  IN IF num < 0 THEN -q ELSE q

\* normalizeValueToTarget that takes a scale above 10 for 10
normalizeValueToTarget_ScaleCapped(value, scale) ==
  IF IsNone(value) THEN None
  ELSE IF scale <= 0 THEN None
  ELSE Some(ToFixed2(Val(value) * NORMALIZED_TARGET_SCALE,
                     IF scale > 10 THEN 10 ELSE scale))

\* value is a nullable integer; the result is a nullable count of hundredths
normalizeValueToTarget(value, scale) ==
  IF IsNone(value) THEN None
  ELSE IF scale <= 0 THEN None
  ELSE Some(ToFixed2(Val(value) * NORMALIZED_TARGET_SCALE, scale))

\* s.replace(/_/g, " ").replace(/\b\w/g, upper): \w is a letter, a digit or the
\* underscore, and a word starts where the character before is not one
WordChars == UpperSet \cup LowerSet \cup DigitSet \cup {"_"}

humanizeCategory(key) ==
  LET safe == sanitizeAndFallback(Some(key), S_General)
      spaced == [i \in DOMAIN safe |-> IF safe[i] = "_" THEN " " ELSE safe[i]]
  IN [i \in DOMAIN spaced |->
        IF spaced[i] \in WordChars /\ (i = 1 \/ spaced[i - 1] \notin WordChars)
        THEN UpperChar(spaced[i])
        ELSE spaced[i]]

\* categories is a sequence of [category, rating]; an absent one is empty
normalizeCategories(categories) ==
  IF categories = <<>> THEN <<>>
  ELSE [i \in DOMAIN categories |->
          LET c == categories[i]
              scale == detectScale(c.rating, None)
              safeKey == sanitizeAndFallback(Some(c.category), S_other)
          IN [key |-> safeKey,
              label |-> humanizeCategory(safeKey),
              rating |-> c.rating,
              scale |-> scale,
              normalizedRating |-> normalizeValueToTarget(c.rating, scale)]]

(***************************************************************************)
(* Dates                                                                   *)
(***************************************************************************)
\* The date strings new Date() parses, with the instant each denotes in days
\* since the epoch; every other string gives an Invalid Date.
ParseableDates ==
  [s \in {"1970-01-01T00:00:00.000Z",
          "2024-01-15", "2024-01-15T00:00:00.000Z",
          "2024-02-10", "2024-02-10T00:00:00.000Z",
          "2024-03-01", "2024-03-01T00:00:00.000Z"} |->
     CASE s = "1970-01-01T00:00:00.000Z" -> 0
       [] s \in {"2024-01-15", "2024-01-15T00:00:00.000Z"} -> 19737
       [] s \in {"2024-02-10", "2024-02-10T00:00:00.000Z"} -> 19763
       [] s \in {"2024-03-01", "2024-03-01T00:00:00.000Z"} -> 19783]

\* value is a nullable date string; the result is a nullable instant
parseDate(value) ==
  IF IsNone(value) \/ Val(value) = "" THEN None
  ELSE IF Val(value) \in DOMAIN ParseableDates THEN Some(ParseableDates[Val(value)])
  ELSE None

\* Date.prototype.toISOString
toISOString(date) ==
  CASE date = 0 -> "1970-01-01T00:00:00.000Z"
    [] date = 19737 -> "2024-01-15T00:00:00.000Z"
    [] date = 19763 -> "2024-02-10T00:00:00.000Z"
    [] date = 19783 -> "2024-03-01T00:00:00.000Z"

toIsoString(date) == IF IsNone(date) THEN None ELSE Some(toISOString(Val(date)))

\* new Date(iso).getTime() for a string toISOString made
getTime(iso) == ParseableDates[iso]

(***************************************************************************)
(* Approvals store                                                         *)
(***************************************************************************)
\* The store is the Map of ApprovalsStore: a function from the keys it has to
\* [value, source].
getApproval(store, id) ==
  IF id \in DOMAIN store THEN Some(store[id].value) ELSE None

Put(store, id, record) ==
  [k \in DOMAIN store \cup {id} |-> IF k = id THEN record ELSE store[k]]

\* ensureInitialValue that writes the fallback over a value already there
ensureInitialValue_Overwrites(store, id, fallback) ==
  IF IsNone(fallback) THEN store
  ELSE Put(store, id, [value |-> Val(fallback), source |-> "initial"])

ensureInitialValue(store, id, fallback) ==
  IF id \in DOMAIN store THEN store
  ELSE IF IsNone(fallback) THEN store
  ELSE Put(store, id, [value |-> Val(fallback), source |-> "initial"])

setApproval(store, id, value) ==
  Put(store, id, [value |-> value, source |-> "manager"])

snapshot(store) == {[id |-> k, value |-> store[k].value, source |-> store[k].source] :
                      k \in DOMAIN store}

(***************************************************************************)
(* Record normaliser                                                       *)
(***************************************************************************)
\* String(id) and the template literal hostaway-${id}
String(id) == ToString(id)
ReviewIdOf(id) == "hostaway-" \o ToString(id)

\* .toLowerCase().replace(/[^a-z0-9]+/g, "-").replace(/(^-|-$)+/g, "")
SlugChars == LowerSet \cup DigitSet

RECURSIVE CollapseToHyphen(_)
CollapseToHyphen(s) ==
  IF s = <<>> THEN <<>>
  ELSE IF Head(s) \in SlugChars THEN <<Head(s)>> \o CollapseToHyphen(Tail(s))
  ELSE LET rest == CollapseToHyphen(Tail(s))
       IN IF rest # <<>> /\ Head(rest) = "-" THEN rest ELSE <<"-">> \o rest

StripHyphens(s) ==
  LET a == IF s # <<>> /\ Head(s) = "-" THEN Tail(s) ELSE s
  IN IF a # <<>> /\ a[Len(a)] = "-" THEN SubSeq(a, 1, Len(a) - 1) ELSE a

toSlug(value) ==
  StripHyphens(CollapseToHyphen(toLowerCase(sanitizeAndFallback(Some(value), S_listing))))

\* the rating, in hundredths, from which a review is approved by default
APPROVAL_THRESHOLD == 440

\* approvalOverride ?? (typeof publishOnFlex === "boolean" ? publishOnFlex : ...)
resolveApproval_FlagFirst(approvalOverride, publishOnFlex, normalizedRating) ==
  IF IsSome(publishOnFlex) THEN Val(publishOnFlex)
  ELSE IF IsSome(approvalOverride) THEN Val(approvalOverride)
  ELSE IsSome(normalizedRating) /\ Val(normalizedRating) >= APPROVAL_THRESHOLD

resolveApproval(approvalOverride, publishOnFlex, normalizedRating) ==
  IF IsSome(approvalOverride) THEN Val(approvalOverride)
  ELSE IF IsSome(publishOnFlex) THEN Val(publishOnFlex)
  ELSE IsSome(normalizedRating) /\ Val(normalizedRating) >= APPROVAL_THRESHOLD

normalizeReview(review, store) ==
  LET scale == detectScale(review.rating, review.ratingScale)
      normalizedRating == normalizeValueToTarget(review.rating, scale)
      safeListingName == sanitizeAndFallback(review.listingName, S_FlexLivingListing)
      parsed == parseDate(review.submittedAt)
      date == IF IsSome(parsed) THEN Val(parsed) ELSE 0
      approvalOverride == getApproval(store, String(review.id))
      sanitizedTags == [i \in DOMAIN review.tags |-> sanitizeText(Some(review.tags[i]))]
      keptTags == SelectSeq(sanitizedTags, LAMBDA t : IsSome(t) /\ Val(t) # <<>>)
  IN [id |-> ReviewIdOf(review.id),
      sourceId |-> review.id,
      listingId |-> review.listingId,
      listingName |-> safeListingName,
      listingSlug |-> toSlug(safeListingName),
      submittedAt |-> toISOString(date),
      channel |-> coerceChannel(review.channel),
      type |-> coerceType(review.type),
      status |-> coerceStatus(review.status),
      guestName |-> sanitizeText(review.guestName),
      publicReview |-> sanitizeText(review.publicReview),
      privateReview |-> sanitizeText(review.privateReview),
      managerResponse |-> sanitizeText(review.managerResponse),
      rating |-> review.rating,
      ratingScale |-> scale,
      normalizedRating |-> normalizedRating,
      categoryRatings |-> normalizeCategories(review.reviewCategory),
      tags |-> [i \in DOMAIN keptTags |-> Val(keptTags[i])],
      isApproved |->
        resolveApproval(approvalOverride, review.publishOnFlex, normalizedRating)]

(***************************************************************************)
(* Sorting primitives                                                      *)
(***************************************************************************)
\* Array.prototype.sort with a comparator: the sort is stable, so for a
\* comparator that is a total preorder the result is the one permutation that
\* puts x before y when cmp(x, y) < 0, and keeps the input order when it is 0
\* (a NaN result counts as 0).  No element is compared with itself.
StableSort(s, cmp(_, _)) ==
  LET pos(i) == 1 + Cardinality({j \in DOMAIN s \ {i} :
                      \/ cmp(s[j], s[i]) < 0
                      \/ (cmp(s[j], s[i]) = 0 /\ j < i)})
  IN [k \in DOMAIN s |-> s[CHOOSE i \in DOMAIN s : pos(i) = k]]

\* UTF-16 code units of the model's alphabet; the last two are the first
\* characters of what the two inherited values print as
OtherCodeUnits ==
  [c \in {"\t", "\n", "\f", "\r", " ", "\"", "'", ",", "-", ".", ":", "<", ">", "_",
          "[Function: Object]", "[Object: null prototype] {}"} |->
     CASE c = "\t" -> 9 [] c = "\n" -> 10 [] c = "\f" -> 12 [] c = "\r" -> 13
       [] c = " " -> 32 [] c = "\"" -> 34 [] c = "'" -> 39 [] c = "," -> 44
       [] c = "-" -> 45 [] c = "." -> 46 [] c = ":" -> 58 [] c = "<" -> 60
       [] c = ">" -> 62 [] c = "_" -> 95
       [] c = "[Function: Object]" -> 102
       [] c = "[Object: null prototype] {}" -> 91]

CodeUnits ==
  [c \in LowerSet \cup UpperSet \cup DigitSet \cup DOMAIN OtherCodeUnits |->
     IF c \in LowerSet THEN 96 + IndexOf(LowerLetters, c)
     ELSE IF c \in UpperSet THEN 64 + IndexOf(UpperLetters, c)
     ELSE IF c \in DigitSet THEN 47 + IndexOf(Digits, c)
     ELSE OtherCodeUnits[c]]

CodeUnit(c) == CodeUnits[c]

\* the order of Array.prototype.sort without a comparator: by code units
RECURSIVE CodeUnitCompare(_, _)
CodeUnitCompare(a, b) ==
  IF a = <<>> /\ b = <<>> THEN 0
  ELSE IF a = <<>> THEN -1
  ELSE IF b = <<>> THEN 1
  ELSE IF CodeUnit(Head(a)) # CodeUnit(Head(b)) THEN CodeUnit(Head(a)) - CodeUnit(Head(b))
  ELSE CodeUnitCompare(Tail(a), Tail(b))

\* Array.from(set).sort(): the set's members in code-unit order
SortedStrings(set) ==
  [k \in 1..Cardinality(set) |->
     CHOOSE x \in set :
       Cardinality({y \in set : CodeUnitCompare(y, x) < 0}) = k - 1]

\* String.prototype.localeCompare under the default collation, for strings of
\* the model's alphabet: first letter by letter without regard to case
\* (punctuation before digits before letters), and, if that ties, lower case
\* before upper case at the first difference.
PrimaryWeights ==
  [c \in DOMAIN CodeUnits |->
     IF LowerChar(c) \in LowerSet THEN 200 + IndexOf(LowerLetters, LowerChar(c))
     ELSE IF c \in DigitSet THEN 100 + IndexOf(Digits, c)
     ELSE CodeUnits[c]]

PrimaryWeight(c) == PrimaryWeights[c]

RECURSIVE PrimaryCompare(_, _)
PrimaryCompare(a, b) ==
  IF a = <<>> /\ b = <<>> THEN 0
  ELSE IF a = <<>> THEN -1
  ELSE IF b = <<>> THEN 1
  ELSE IF PrimaryWeight(Head(a)) < PrimaryWeight(Head(b)) THEN -1
  ELSE IF PrimaryWeight(Head(a)) > PrimaryWeight(Head(b)) THEN 1
  ELSE PrimaryCompare(Tail(a), Tail(b))

RECURSIVE CaseCompare(_, _)
CaseCompare(a, b) ==
  IF a = <<>> \/ b = <<>> THEN 0
  ELSE IF Head(a) = Head(b) THEN CaseCompare(Tail(a), Tail(b))
  ELSE IF Head(a) \in LowerSet THEN -1
  ELSE 1

localeCompare(a, b) ==
  IF PrimaryCompare(a, b) # 0 THEN PrimaryCompare(a, b) ELSE CaseCompare(a, b)

(***************************************************************************)
(* Aggregator                                                              *)
(***************************************************************************)
RECURSIVE Sum(_)
Sum(s) == IF s = <<>> THEN 0 ELSE Head(s) + Sum(Tail(s))

\* average that is 0 when no value is present
average_ZeroWhenEmpty(values) ==
  LET filtered == SelectSeq(values, LAMBDA v : IsSome(v))
      present == [i \in DOMAIN filtered |-> Val(filtered[i])]
  IN IF present = <<>> THEN Some(0)
     ELSE Some(ToFixed2(Sum(present), 100 * Len(present)))

\* values is a sequence of nullable hundredths; the mean of those present,
\* to two decimals
average(values) ==
  LET filtered == SelectSeq(values, LAMBDA v : IsSome(v))
      present == [i \in DOMAIN filtered |-> Val(filtered[i])]
  IN IF present = <<>> THEN None
     ELSE Some(ToFixed2(Sum(present), 100 * Len(present)))

CHANNEL_LABELS(channel) ==
  CASE channel = S_airbnb -> "Airbnb" [] channel = S_booking -> "Booking.com"
    [] channel = S_google -> "Google" [] channel = S_expedia -> "Expedia"
    [] channel = S_vrbo -> "Vrbo" [] channel = S_direct -> "Direct"
    [] channel = S_flex -> "Flex Living" [] channel = S_other -> "Other"

\* the keys of a Map in insertion order: each key at its first occurrence
RECURSIVE FirstSeen(_)
FirstSeen(keys) ==
  IF keys = <<>> THEN <<>>
  ELSE LET front == FirstSeen(SubSeq(keys, 1, Len(keys) - 1))
           last == keys[Len(keys)]
       IN IF last \in Range(front) THEN front ELSE Append(front, last)

Count(s, P(_)) == Len(SelectSeq(s, P))

\* buildChannelBreakdown that makes an entry for every review
buildChannelBreakdown_PerReview(reviews) ==
  IF reviews = <<>> THEN <<>>
  ELSE [k \in DOMAIN reviews |->
          LET count == Count(reviews, LAMBDA r : r.channel = reviews[k].channel)
          IN [channel |-> reviews[k].channel,
              label |-> CHANNEL_LABELS(reviews[k].channel),
              count |-> count,
              ratio |-> ToFixed2(count, Len(reviews))]]

buildChannelBreakdown(reviews) ==
  IF reviews = <<>> THEN <<>>
  ELSE LET keys == FirstSeen([i \in DOMAIN reviews |-> reviews[i].channel])
       IN [k \in DOMAIN keys |->
             LET count == Count(reviews, LAMBDA r : r.channel = keys[k])
             IN [channel |-> keys[k],
                 label |-> CHANNEL_LABELS(keys[k]),
                 count |-> count,
                 ratio |-> ToFixed2(count, Len(reviews))]]

\* every category rating of every review, in iteration order
RECURSIVE AllCategories(_)
AllCategories(reviews) ==
  IF reviews = <<>> THEN <<>>
  ELSE Head(reviews).categoryRatings \o AllCategories(Tail(reviews))

\* buildCategoryAverages that drops a key without a present value
buildCategoryAverages_PresentOnly(reviews) ==
  LET all == AllCategories(reviews)
      keys == FirstSeen([i \in DOMAIN all |-> all[i].key])
      entries ==
        [k \in DOMAIN keys |->
           LET mine == SelectSeq(all, LAMBDA c : c.key = keys[k])
               scale == mine[1].scale
               values == SelectSeq([i \in DOMAIN mine |-> mine[i].normalizedRating],
                                   LAMBDA v : IsSome(v))
               normalizedAverage == average(values)
           IN [category |-> humanizeCategory(keys[k]),
               average |-> IF IsNone(normalizedAverage) THEN None
                           ELSE Some(ToFixed2(Val(normalizedAverage) * scale,
                                              100 * NORMALIZED_TARGET_SCALE)),
               scale |-> scale,
               normalizedAverage |-> normalizedAverage]]
  IN SelectSeq(entries, LAMBDA e : IsSome(e.normalizedAverage))

\* buildCategoryAverages that keeps the scale of a key's last occurrence
buildCategoryAverages_LastScale(reviews) ==
  LET all == AllCategories(reviews)
      keys == FirstSeen([i \in DOMAIN all |-> all[i].key])
  IN [k \in DOMAIN keys |->
        LET mine == SelectSeq(all, LAMBDA c : c.key = keys[k])
            scale == mine[Len(mine)].scale
            values == SelectSeq([i \in DOMAIN mine |-> mine[i].normalizedRating],
                                LAMBDA v : IsSome(v))
            normalizedAverage == average(values)
        IN [category |-> humanizeCategory(keys[k]),
            average |-> IF IsNone(normalizedAverage) THEN None
                        ELSE Some(ToFixed2(Val(normalizedAverage) * scale,
                                           100 * NORMALIZED_TARGET_SCALE)),
            scale |-> scale,
            normalizedAverage |-> normalizedAverage]]

buildCategoryAverages(reviews) ==
  LET all == AllCategories(reviews)
      keys == FirstSeen([i \in DOMAIN all |-> all[i].key])
  IN [k \in DOMAIN keys |->
        LET mine == SelectSeq(all, LAMBDA c : c.key = keys[k])
            \* the record is made, with its scale, when the key is first seen
            scale == mine[1].scale
            values == SelectSeq([i \in DOMAIN mine |-> mine[i].normalizedRating],
                                LAMBDA v : IsSome(v))
            normalizedAverage == average(values)
        IN [category |-> humanizeCategory(keys[k]),
            average |-> IF IsNone(normalizedAverage) THEN None
                        ELSE Some(ToFixed2(Val(normalizedAverage) * scale,
                                           100 * NORMALIZED_TARGET_SCALE)),
            scale |-> scale,
            normalizedAverage |-> normalizedAverage]]

\* getUTCFullYear and getUTCMonth + 1 of an instant, as YYYY-MM
PeriodOf(date) ==
  CASE date = 0 -> "1970-01" [] date = 19737 -> "2024-01"
    [] date = 19763 -> "2024-02" [] date = 19783 -> "2024-03"

\* the months since year 0 that a period key spells
MonthsOf(period) ==
  CASE period = "1970-01" -> 1970 * 12 + 1 [] period = "2024-01" -> 2024 * 12 + 1
    [] period = "2024-02" -> 2024 * 12 + 2 [] period = "2024-03" -> 2024 * 12 + 3

\* a > b ? 1 : -1 on two period keys: YYYY-MM keys order as their months do
PeriodCompare(a, b) == IF MonthsOf(a) > MonthsOf(b) THEN 1 ELSE -1

buildTrend(reviews) ==
  IF reviews = <<>> THEN <<>>
  ELSE LET keys == FirstSeen([i \in DOMAIN reviews |->
                                 PeriodOf(getTime(reviews[i].submittedAt))])
           sorted == StableSort(keys, PeriodCompare)
       IN [k \in DOMAIN sorted |->
             LET periodReviews ==
                   SelectSeq(reviews,
                             LAMBDA r : PeriodOf(getTime(r.submittedAt)) = sorted[k])
                 normalizedAverage ==
                   average([i \in DOMAIN periodReviews |->
                              periodReviews[i].normalizedRating])
             IN [period |-> sorted[k],
                 averageRating |-> normalizedAverage,
                 normalizedAverage |-> normalizedAverage,
                 reviewCount |-> Len(periodReviews)]]

SummaryCompare_NameOnAnyTie(a, b) ==
  IF IsNone(a.averageRating) /\ IsNone(b.averageRating)
  THEN localeCompare(a.listingName, b.listingName)
  ELSE IF IsNone(a.averageRating) THEN 1
  ELSE IF IsNone(b.averageRating) THEN -1
  ELSE IF Val(b.averageRating) = Val(a.averageRating)
  THEN localeCompare(a.listingName, b.listingName)
  ELSE Val(b.averageRating) - Val(a.averageRating)

\* the comparator of the listing summaries
SummaryCompare(a, b) ==
  IF IsNone(a.averageRating) /\ IsNone(b.averageRating)
  THEN localeCompare(a.listingName, b.listingName)
  ELSE IF IsNone(a.averageRating) THEN 1
  ELSE IF IsNone(b.averageRating) THEN -1
  ELSE Val(b.averageRating) - Val(a.averageRating)

DateDescCompare(a, b) == getTime(b.submittedAt) - getTime(a.submittedAt)

buildListingSummaries(reviews) ==
  LET ids == FirstSeen([i \in DOMAIN reviews |-> reviews[i].listingId])
      summaries ==
        [g \in DOMAIN ids |->
           LET listingReviews == SelectSeq(reviews, LAMBDA r : r.listingId = ids[g])
               info == listingReviews[1]
               normalizedAverage ==
                 average([i \in DOMAIN listingReviews |->
                            listingReviews[i].normalizedRating])
               sortedByDate == StableSort(listingReviews, DateDescCompare)
           IN [listingId |-> info.listingId,
               listingName |-> info.listingName,
               listingSlug |-> info.listingSlug,
               totalReviews |-> Len(listingReviews),
               approvedReviews |-> Count(listingReviews, LAMBDA r : r.isApproved),
               lastReviewDate |-> IF sortedByDate # <<>>
                                  THEN Some(sortedByDate[1].submittedAt) ELSE None,
               averageRating |-> normalizedAverage,
               ratingScale |-> NORMALIZED_TARGET_SCALE,
               normalizedAverageRating |-> normalizedAverage,
               channels |-> buildChannelBreakdown(listingReviews),
               categoryAverages |-> buildCategoryAverages(listingReviews),
               ratingTrend |-> buildTrend(listingReviews)]]
  IN StableSort(summaries, SummaryCompare)

Min(S) == CHOOSE x \in S : \A y \in S : x <= y
Max(S) == CHOOSE x \in S : \A y \in S : x >= y

computeMetrics(reviews) ==
  LET normalizedAverage == average([i \in DOMAIN reviews |-> reviews[i].normalizedRating])
      \* every submittedAt was made by toISOString, so no date is dropped here
      dates == {getTime(reviews[i].submittedAt) : i \in DOMAIN reviews}
      from == IF dates # {} THEN Some(Min(dates)) ELSE None
      to == IF dates # {} THEN Some(Max(dates)) ELSE None
  IN [totalReviews |-> Len(reviews),
      approvedReviews |-> Count(reviews, LAMBDA r : r.isApproved),
      averageRating |-> normalizedAverage,
      ratingScale |-> NORMALIZED_TARGET_SCALE,
      normalizedAverageRating |-> normalizedAverage,
      dateRange |-> [from |-> toIsoString(from), to |-> toIsoString(to)]]

(***************************************************************************)
(* Query parameters                                                        *)
(***************************************************************************)
\* the largest integer and the largest whole part of a decimal that the
\* numerals of the model's requests spell
MaxNumeral == 10

toBoolean(value) ==
  IF IsNone(value) THEN None
  ELSE IF Val(value) = "true" THEN Some(TRUE)
  ELSE IF Val(value) = "false" THEN Some(FALSE)
  ELSE None

\* Number.parseFloat on a numeral with at most one decimal, in hundredths;
\* None is NaN
ParseFloat(s) ==
  IF \E a \in 0..MaxNumeral : s = ToString(a)
  THEN Some(100 * (CHOOSE a \in 0..MaxNumeral : s = ToString(a)))
  ELSE IF \E a \in 0..MaxNumeral, d \in 0..9 : s = ToString(a) \o "." \o ToString(d)
  THEN LET ad == CHOOSE ad \in (0..MaxNumeral) \X (0..9) :
                   s = ToString(ad[1]) \o "." \o ToString(ad[2])
       IN Some(100 * ad[1] + 10 * ad[2])
  ELSE None

parseFloatOrNull(value) ==
  IF IsNone(value) THEN None ELSE ParseFloat(Val(value))

\* Number.parseInt(s, 10) on a numeral; None is NaN
ParseInt(s) ==
  IF \E a \in 0..MaxNumeral : s = ToString(a)
  THEN Some(CHOOSE a \in 0..MaxNumeral : s = ToString(a))
  ELSE None

\* params.get(name)?.split(",").filter(Boolean)
SplitList(value) ==
  IF IsNone(value) THEN None
  ELSE Some(SelectSeq(split(Val(value), ","), LAMBDA part : part # <<>>))

\* params holds what URLSearchParams.get gives for each name (None is null).
\* In the result listingId is None (undefined) or Some of what parseInt gave.
gatherFiltersFromSearchParams(params) ==
  LET channels == SplitList(params.channel)
      types == SplitList(params.type)
      statuses == SplitList(params.status)
  IN [listingId |-> IF IsSome(params.listingId) /\ Val(params.listingId) # ""
                    THEN Some(ParseInt(Val(params.listingId))) ELSE None,
      listingSlug |-> params.listingSlug,
      channels |-> IF IsNone(channels) THEN None
                   ELSE Some([i \in DOMAIN Val(channels) |->
                                coerceChannel(Some(Val(channels)[i]))]),
      types |-> IF IsNone(types) THEN None
                ELSE Some([i \in DOMAIN Val(types) |-> coerceType(Some(Val(types)[i]))]),
      statuses |-> IF IsNone(statuses) THEN None
                   ELSE Some([i \in DOMAIN Val(statuses) |->
                                coerceStatus(Some(Val(statuses)[i]))]),
      approved |-> toBoolean(params.approved),
      minRating |-> parseFloatOrNull(params.minRating),
      maxRating |-> parseFloatOrNull(params.maxRating),
      category |-> IF IsNone(params.category) THEN None
                   ELSE Some(toLowerCase(Val(params.category))),
      minCategoryRating |-> parseFloatOrNull(params.minCategoryRating),
      startDate |-> params.startDate,
      endDate |-> params.endDate,
      search |-> params.search,
      sort |-> params.sort]

(***************************************************************************)
(* Filter evaluator                                                        *)
(***************************************************************************)
\* a nullable string is truthy when it is present and not empty
Truthy(text) == IsSome(text) /\ Val(text) # <<>>
TruthyString(str) == IsSome(str) /\ Val(str) # ""

\* the string the search runs over
Haystack(review) ==
  LET orEmpty(o) == IF IsNone(o) THEN <<>> ELSE Val(o)
  IN toLowerCase(join(<<review.listingName,
                        orEmpty(review.guestName),
                        orEmpty(review.publicReview),
                        orEmpty(review.privateReview),
                        orEmpty(review.managerResponse)>> \o review.tags,
                      <<" ">>))

\* the whitespace-separated terms of a string
RECURSIVE TermsFrom(_, _)
TermsFrom(s, cur) ==
  IF s = <<>> THEN (IF cur = <<>> THEN <<>> ELSE <<cur>>)
  ELSE IF Head(s) \in WhitespaceChars
       THEN (IF cur = <<>> THEN <<>> ELSE <<cur>>) \o TermsFrom(Tail(s), <<>>)
  ELSE TermsFrom(Tail(s), Append(cur, Head(s)))

TermsOf(s) == TermsFrom(s, <<>>)

SearchMatches_AllTerms(review, search) ==
  \A t \in Range(TermsOf(toLowerCase(search))) : includes(Haystack(review), t)

SearchMatches(review, search) == includes(Haystack(review), toLowerCase(search))

DateRangeMatches(review, filters) ==
  LET startDate == IF TruthyString(filters.startDate) THEN parseDate(filters.startDate)
                   ELSE None
      endDate == IF TruthyString(filters.endDate) THEN parseDate(filters.endDate)
                 ELSE None
      submitted == parseDate(Some(review.submittedAt))
  IN (IsSome(startDate) \/ IsSome(endDate)) =>
       /\ IsSome(submitted)
       /\ ~(IsSome(startDate) /\ Val(submitted) < Val(startDate))
       /\ ~(IsSome(endDate) /\ Val(submitted) > Val(endDate))

\* CategoryMatches that asks for the category only when a bound is set
CategoryMatches_AbsentPassesUnbounded(review, filters) ==
  LET found == SelectSeq(review.categoryRatings,
                         LAMBDA c : toLowerCase(c.key) = Val(filters.category))
  IN IF IsNone(filters.minCategoryRating) THEN TRUE
     ELSE /\ found # <<>>
          /\ IsSome(found[1].normalizedRating)
          /\ Val(found[1].normalizedRating) >= Val(filters.minCategoryRating)

CategoryMatches(review, filters) ==
  LET found == SelectSeq(review.categoryRatings,
                         LAMBDA c : toLowerCase(c.key) = Val(filters.category))
  IN /\ found # <<>>
     /\ ~(/\ IsSome(filters.minCategoryRating)
          /\ \/ IsNone(found[1].normalizedRating)
             \/ Val(found[1].normalizedRating) < Val(filters.minCategoryRating))

\* matchesFilters that returns at the approved test when it is set and passes
matchesFilters_ApprovedReturnsEarly(review, filters) ==
  /\ ~(/\ IsSome(filters.listingId)
       /\ \/ IsNone(Val(filters.listingId))
          \/ review.listingId # Val(Val(filters.listingId)))
  /\ ~(Truthy(filters.listingSlug) /\ review.listingSlug # Val(filters.listingSlug))
  /\ ~(/\ IsSome(filters.channels) /\ Val(filters.channels) # <<>>
       /\ review.channel \notin Range(Val(filters.channels)))
  /\ ~(/\ IsSome(filters.types) /\ Val(filters.types) # <<>>
       /\ review.type \notin Range(Val(filters.types)))
  /\ ~(/\ IsSome(filters.statuses) /\ Val(filters.statuses) # <<>>
       /\ review.status \notin Range(Val(filters.statuses)))
  /\ IF IsSome(filters.approved)
     THEN review.isApproved = Val(filters.approved)
     ELSE /\ ~(/\ IsSome(filters.minRating)
               /\ \/ IsNone(review.normalizedRating)
                  \/ Val(review.normalizedRating) < Val(filters.minRating))
          /\ ~(/\ IsSome(filters.maxRating)
               /\ \/ IsNone(review.normalizedRating)
                  \/ Val(review.normalizedRating) > Val(filters.maxRating))
          /\ (Truthy(filters.category) => CategoryMatches(review, filters))
          /\ DateRangeMatches(review, filters)
          /\ (Truthy(filters.search) => SearchMatches(review, Val(filters.search)))

\* matchesFilters that lets a review without a rating pass the rating bounds
matchesFilters_UnratedPasses(review, filters) ==
  /\ ~(/\ IsSome(filters.listingId)
       /\ \/ IsNone(Val(filters.listingId))
          \/ review.listingId # Val(Val(filters.listingId)))
  /\ ~(Truthy(filters.listingSlug) /\ review.listingSlug # Val(filters.listingSlug))
  /\ ~(/\ IsSome(filters.channels) /\ Val(filters.channels) # <<>>
       /\ review.channel \notin Range(Val(filters.channels)))
  /\ ~(/\ IsSome(filters.types) /\ Val(filters.types) # <<>>
       /\ review.type \notin Range(Val(filters.types)))
  /\ ~(/\ IsSome(filters.statuses) /\ Val(filters.statuses) # <<>>
       /\ review.status \notin Range(Val(filters.statuses)))
  /\ ~(IsSome(filters.approved) /\ review.isApproved # Val(filters.approved))
  /\ ~(/\ IsSome(filters.minRating)
       /\ IsSome(review.normalizedRating)
       /\ Val(review.normalizedRating) < Val(filters.minRating))
  /\ ~(/\ IsSome(filters.maxRating)
       /\ IsSome(review.normalizedRating)
       /\ Val(review.normalizedRating) > Val(filters.maxRating))
  /\ (Truthy(filters.category) => CategoryMatches(review, filters))
  /\ DateRangeMatches(review, filters)
  /\ (Truthy(filters.search) => SearchMatches(review, Val(filters.search)))

matchesFilters(review, filters) ==
  /\ ~(/\ IsSome(filters.listingId)
       /\ \/ IsNone(Val(filters.listingId))
          \/ review.listingId # Val(Val(filters.listingId)))
  /\ ~(Truthy(filters.listingSlug) /\ review.listingSlug # Val(filters.listingSlug))
  /\ ~(/\ IsSome(filters.channels) /\ Val(filters.channels) # <<>>
       /\ review.channel \notin Range(Val(filters.channels)))
  /\ ~(/\ IsSome(filters.types) /\ Val(filters.types) # <<>>
       /\ review.type \notin Range(Val(filters.types)))
  /\ ~(/\ IsSome(filters.statuses) /\ Val(filters.statuses) # <<>>
       /\ review.status \notin Range(Val(filters.statuses)))
  /\ ~(IsSome(filters.approved) /\ review.isApproved # Val(filters.approved))
  /\ ~(/\ IsSome(filters.minRating)
       /\ \/ IsNone(review.normalizedRating)
          \/ Val(review.normalizedRating) < Val(filters.minRating))
  /\ ~(/\ IsSome(filters.maxRating)
       /\ \/ IsNone(review.normalizedRating)
          \/ Val(review.normalizedRating) > Val(filters.maxRating))
  /\ (Truthy(filters.category) => CategoryMatches(review, filters))
  /\ DateRangeMatches(review, filters)
  /\ (Truthy(filters.search) => SearchMatches(review, Val(filters.search)))

(***************************************************************************)
(* Sort comparator                                                         *)
(***************************************************************************)
\* a rating comparator that puts the unrated last in either direction
RatingCompare_UnratedLast(a, b, multiplier) ==
  IF IsNone(a.normalizedRating) /\ IsNone(b.normalizedRating) THEN 0
  ELSE IF IsNone(a.normalizedRating) THEN 1
  ELSE IF IsNone(b.normalizedRating) THEN -1
  ELSE (Val(a.normalizedRating) - Val(b.normalizedRating)) * multiplier * (-1)

\* (aValue - bValue) * multiplier * -1 with a missing rating read as -Infinity:
\* -Infinity minus -Infinity is NaN, which the sort takes for 0; otherwise an
\* infinite difference keeps its sign through the two multiplications.
RatingCompare(a, b, multiplier) ==
  IF IsNone(a.normalizedRating) /\ IsNone(b.normalizedRating) THEN 0
  ELSE IF IsNone(a.normalizedRating) THEN (-1) * multiplier * (-1)
  ELSE IF IsNone(b.normalizedRating) THEN 1 * multiplier * (-1)
  ELSE (Val(a.normalizedRating) - Val(b.normalizedRating)) * multiplier * (-1)

ListingCompare(a, b, multiplier) == localeCompare(a.listingName, b.listingName) * multiplier

ChannelCompare(a, b, multiplier) == localeCompare(a.channel, b.channel) * multiplier

DateCompare(a, b, multiplier) ==
  (getTime(a.submittedAt) - getTime(b.submittedAt)) * multiplier

\* sort is the nullable sort parameter
applySorting(reviews, sort) ==
  IF ~Truthy(sort) THEN StableSort(reviews, DateDescCompare)
  ELSE LET parts == split(Val(sort), ":")
           field == parts[1]
           multiplier == IF Len(parts) >= 2 /\ parts[2] = S_asc THEN 1 ELSE -1
           byRating(a, b) == RatingCompare(a, b, multiplier)
           byListing(a, b) == ListingCompare(a, b, multiplier)
           byChannel(a, b) == ChannelCompare(a, b, multiplier)
           byDate(a, b) == DateCompare(a, b, multiplier)
       IN IF field = S_rating THEN StableSort(reviews, byRating)
          ELSE IF field = S_listing THEN StableSort(reviews, byListing)
          ELSE IF field = S_channel THEN StableSort(reviews, byChannel)
          ELSE StableSort(reviews, byDate)

(***************************************************************************)
(* Response assembler                                                      *)
(***************************************************************************)
collectMetaFilters(reviews) ==
  LET parsed == {parseDate(Some(reviews[i].submittedAt)) : i \in DOMAIN reviews}
      dates == {Val(d) : d \in {p \in parsed : IsSome(p)}}
      minDate == IF dates # {} THEN Some(Min(dates)) ELSE None
      maxDate == IF dates # {} THEN Some(Max(dates)) ELSE None
  IN [channels |-> SortedStrings({reviews[i].channel : i \in DOMAIN reviews}),
      reviewTypes |-> SortedStrings({reviews[i].type : i \in DOMAIN reviews}),
      categories |-> SortedStrings({c.key : c \in Range(AllCategories(reviews))}),
      statuses |-> SortedStrings({reviews[i].status : i \in DOMAIN reviews}),
      dateRange |-> [min |-> toIsoString(minDate), max |-> toIsoString(maxDate)]]

\* getHostawayReviews().map(normalizeReview)
NormalizeAll(reviews, store) ==
  [i \in DOMAIN reviews |-> normalizeReview(reviews[i], store)]

\* params are the search parameters of the request URL; meta.generatedAt is
\* wall-clock time and is not represented
\* buildHostawayResponse that derives the vocabulary and the overall metrics
\* from the filtered reviews
buildHostawayResponse_MetaOfFiltered(reviews, store, params) ==
  LET allNormalized == NormalizeAll(reviews, store)
      filters == gatherFiltersFromSearchParams(params)
      filteredReviews == SelectSeq(allNormalized, LAMBDA r : matchesFilters(r, filters))
      sortedReviews == applySorting(filteredReviews, filters.sort)
  IN [meta |-> [filters |-> collectMetaFilters(sortedReviews)],
      metrics |-> [overall |-> computeMetrics(sortedReviews),
                   filtered |-> computeMetrics(sortedReviews)],
      listings |-> buildListingSummaries(sortedReviews),
      reviews |-> sortedReviews]

\* buildHostawayResponse whose filtered metrics are computed before filtering
buildHostawayResponse_MetricsOfAll(reviews, store, params) ==
  LET allNormalized == NormalizeAll(reviews, store)
      filters == gatherFiltersFromSearchParams(params)
      filteredReviews == SelectSeq(allNormalized, LAMBDA r : matchesFilters(r, filters))
      sortedReviews == applySorting(filteredReviews, filters.sort)
  IN [meta |-> [filters |-> collectMetaFilters(allNormalized)],
      metrics |-> [overall |-> computeMetrics(allNormalized),
                   filtered |-> computeMetrics(allNormalized)],
      listings |-> buildListingSummaries(sortedReviews),
      reviews |-> sortedReviews]

buildHostawayResponse(reviews, store, params) ==
  LET allNormalized == NormalizeAll(reviews, store)
      filters == gatherFiltersFromSearchParams(params)
      filteredReviews == SelectSeq(allNormalized, LAMBDA r : matchesFilters(r, filters))
      sortedReviews == applySorting(filteredReviews, filters.sort)
  IN [meta |-> [filters |-> collectMetaFilters(allNormalized)],
      metrics |-> [overall |-> computeMetrics(allNormalized),
                   filtered |-> computeMetrics(sortedReviews)],
      listings |-> buildListingSummaries(sortedReviews),
      reviews |-> sortedReviews]

RECURSIVE SeedAll(_, _)
SeedAll(reviews, store) ==
  IF reviews = <<>> THEN store
  ELSE SeedAll(Tail(reviews),
               ensureInitialValue(store, String(Head(reviews).id),
                                  Head(reviews).publishOnFlex))

refreshApprovals(reviews, store) == SeedAll(reviews, store)

(***************************************************************************)
(* Inputs: raw reviews, request parameters, request bodies                 *)
(***************************************************************************)
In_Airbnb == <<"A","i","r","b","n","b">>
In_BookingCom == <<"B","o","o","k","i","n","g",".","c","o","m">>
In_GOOGLE == <<"G","O","O","G","L","E">>
In_Expedia == <<"E","x","p","e","d","i","a">>
In_VRBO == <<"V","R","B","O">>
In_FlexLiving == <<"F","l","e","x"," ","L","i","v","i","n","g">>
In_Direct == <<"D","i","r","e","c","t">>
In_Website == <<"W","e","b","s","i","t","e">>
In_DirectViaAirbnb == <<"D","i","r","e","c","t"," ","v","i","a"," ","A","i","r","b","n","b">>
In_HostToGuest == <<"H","o","s","t","-","T","o","-","G","u","e","s","t">>
In_Review == <<"R","e","v","i","e","w">>
In_Constructor == <<"C","o","n","s","t","r","u","c","t","o","r">>
In_PENDING == <<"P","E","N","D","I","N","G">>
In_Awaiting == <<"A","w","a","i","t","i","n","g">>
In_AlphaLoft == <<"A","l","p","h","a"," ","L","o","f","t">>
In_BravoFlat == <<"B","r","a","v","o"," ","F","l","a","t">>
In_CedarRoom == <<"C","e","d","a","r"," ","R","o","o","m">>
In_AspenNook == <<"A","s","p","e","n"," ","N","o","o","k">>
In_GreatStay == <<"G","r","e","a","t"," ","s","t","a","y">>
In_StayWasGreat == <<"S","t","a","y"," ","w","a","s"," ","g","r","e","a","t">>
In_NoisyStreet == <<"N","o","i","s","y"," ","s","t","r","e","e","t">>
In_Maria == <<"M","a","r","i","a">>
In_cleanliness == <<"c","l","e","a","n","l","i","n","e","s","s">>
Q_great_stay == <<"g","r","e","a","t"," ","s","t","a","y">>
Q_GREAT == <<"G","R","E","A","T">>
Q_bravo == <<"b","r","a","v","o">>
Q_rating_desc == <<"r","a","t","i","n","g",":","d","e","s","c">>
Q_rating_asc == <<"r","a","t","i","n","g",":","a","s","c">>
Q_date_desc == <<"d","a","t","e",":","d","e","s","c">>
Q_date_asc == <<"d","a","t","e",":","a","s","c">>
Q_listing_asc == <<"l","i","s","t","i","n","g",":","a","s","c">>
Q_channel_asc == <<"c","h","a","n","n","e","l",":","a","s","c">>
Q_newest == <<"n","e","w","e","s","t">>

MaxReviews == 3
FirstId == 7453

BaseReview ==
  [id |-> FirstId, listingId |-> 1, listingName |-> Some(In_AlphaLoft),
   type |-> Some(S_guest_to_host), channel |-> Some(In_Airbnb),
   status |-> Some(S_published), rating |-> Some(9), ratingScale |-> None,
   publicReview |-> Some(In_GreatStay), privateReview |-> None,
   reviewCategory |-> <<[category |-> In_cleanliness, rating |-> Some(9)]>>,
   submittedAt |-> Some("2024-01-15"), guestName |-> Some(In_Maria),
   managerResponse |-> None, tags |-> <<>>, publishOnFlex |-> None]

RawChannels ==
  {None, Some(<<>>), Some(In_Airbnb), Some(In_BookingCom), Some(In_GOOGLE),
   Some(In_Expedia), Some(In_VRBO), Some(In_FlexLiving), Some(In_Direct),
   Some(In_Website), Some(In_DirectViaAirbnb)}
RawTypes ==
  {None, Some(S_guest_to_host), Some(In_HostToGuest), Some(S_guest_to_guest),
   Some(S_host_to_host), Some(In_Review), Some(In_Constructor)}
RawStatuses ==
  {None, Some(S_published), Some(In_PENDING), Some(S_hidden), Some(S_archived),
   Some(In_Awaiting), Some(S___proto__)}
RawRatings ==
  {None, Some(-3), Some(0), Some(4), Some(5), Some(9), Some(18), Some(88), Some(150)}
RawScales == {None, Some(-10), Some(0), Some(5), Some(8), Some(10)}
RawFlags == {None, Some(TRUE), Some(FALSE)}

In_Blank == <<" ", "\t", " ">>
In_Markup == <<"<", ">">>
In_Quoted == <<" ", "\"", "'", "\n">>
In_BoldLoft == <<"<", "b", ">", "L", "o", "f", "t", "<", "/", "b", ">">>
RawTexts ==
  {None, Some(<<>>), Some(In_Blank), Some(In_Markup), Some(In_Quoted),
   Some(In_BoldLoft)}

\* one raw review at a time: each enumeration field over its strings, and the
\* rating, its scale hint and the publish flag over their product, and the
\* free-text fields over the raw texts
SingleReviews ==
  {[BaseReview EXCEPT !.channel = c] : c \in RawChannels}
  \cup {[BaseReview EXCEPT !.type = t] : t \in RawTypes}
  \cup {[BaseReview EXCEPT !.status = st] : st \in RawStatuses}
  \cup {[BaseReview EXCEPT !.rating = r, !.ratingScale = sc, !.publishOnFlex = f] :
          r \in RawRatings, sc \in RawScales, f \in RawFlags}
  \cup {[BaseReview EXCEPT !.listingName = t, !.guestName = t, !.publicReview = t,
                          !.privateReview = t, !.managerResponse = t] :
          t \in RawTexts}

\* the reviews the query corpora are made of
Templates ==
  <<BaseReview,
    [BaseReview EXCEPT !.listingId = 2, !.listingName = Some(In_BravoFlat),
                       !.channel = Some(In_BookingCom),
                       !.publicReview = Some(In_StayWasGreat),
                       !.submittedAt = Some("2024-03-01")],
    [BaseReview EXCEPT !.listingId = 3, !.listingName = Some(In_CedarRoom),
                       !.rating = None, !.reviewCategory = <<>>,
                       !.publicReview = Some(In_NoisyStreet),
                       !.submittedAt = None],
    [BaseReview EXCEPT !.listingId = 2, !.listingName = Some(In_BravoFlat),
                       !.rating = Some(4), !.channel = Some(In_GOOGLE),
                       !.reviewCategory = <<[category |-> In_cleanliness,
                                             rating |-> Some(4)]>>,
                       !.publicReview = Some(In_GreatStay),
                       !.submittedAt = Some("2024-02-10")],
    [BaseReview EXCEPT !.listingId = 4, !.listingName = Some(In_AspenNook),
                       !.rating = None, !.reviewCategory = <<>>,
                       !.publicReview = None, !.tags = <<In_GreatStay>>,
                       !.submittedAt = Some("not-a-date")]>>

\* a corpus of n reviews: the chosen templates, with source ids in sequence
CorpusOf(choice) ==
  [i \in DOMAIN choice |-> [Templates[choice[i]] EXCEPT !.id = FirstId + i - 1]]

QueryCorpora ==
  {CorpusOf(choice) :
     choice \in UNION {[1..n -> DOMAIN Templates] : n \in 0..MaxReviews}}

NoParams ==
  [listingId |-> None, listingSlug |-> None, channel |-> None, type |-> None,
   status |-> None, approved |-> None, minRating |-> None, maxRating |-> None,
   category |-> None, minCategoryRating |-> None, startDate |-> None,
   endDate |-> None, search |-> None, sort |-> None]

SortParams ==
  {Q_rating_desc, Q_rating_asc, S_rating, Q_date_desc, Q_date_asc, S_date,
   Q_listing_asc, S_listing, Q_channel_asc, S_channel, Q_newest}

QueryRequests ==
  {NoParams}
  \cup {[NoParams EXCEPT !.sort = Some(srt)] : srt \in SortParams}
  \cup {[NoParams EXCEPT !.search = Some(q)] : q \in {Q_great_stay, Q_GREAT, Q_bravo}}
  \cup {[NoParams EXCEPT !.startDate = sd, !.endDate = ed] :
          sd \in {None, Some("2024-02-10"), Some("someday")},
          ed \in {None, Some("2024-02-10"), Some("2024-03-01")}}

MainRequests ==
  {NoParams, [NoParams EXCEPT !.approved = Some("true")]}

\* JSON values of a request body
JString(s) == [t |-> "string", str |-> s]
JBoolean(b) == [t |-> "boolean", bool |-> b]
JNumber(n) == [t |-> "number", num |-> n]
JUndefined == [t |-> "undefined"]

\* a body that is not JSON makes request.json() throw
InvalidJson == [t |-> "invalid"]

Bodies ==
  {[reviewId |-> id, approved |-> a] :
     id \in {JString(ReviewIdOf(FirstId)), JString(String(FirstId))},
     a \in {JBoolean(TRUE), JBoolean(FALSE)}}
  \cup {[reviewId |-> JString(ReviewIdOf(FirstId)), approved |-> JString("true")],
        [reviewId |-> JString(""), approved |-> JBoolean(TRUE)],
        [reviewId |-> JNumber(FirstId), approved |-> JBoolean(TRUE)],
        [reviewId |-> JUndefined, approved |-> JUndefined],
        InvalidJson}

(***************************************************************************)
(* The filter surface: reviews with categories, publish flags and several  *)
(* listings, and requests that set one filter predicate or two             *)
(***************************************************************************)
In_Cleanliness == <<"C","l","e","a","n","l","i","n","e","s","s">>
In_communication == <<"c","o","m","m","u","n","i","c","a","t","i","o","n">>
Q_alpha_loft == <<"a","l","p","h","a","-","l","o","f","t">>
Q_airbnb_google == <<"a","i","r","b","n","b",",","g","o","o","g","l","e">>
Q_great == <<"g","r","e","a","t">>

FilterTemplates ==
  <<BaseReview,
    [BaseReview EXCEPT !.listingId = 2, !.listingName = Some(In_BravoFlat),
                       !.type = Some(In_HostToGuest), !.status = Some(In_PENDING),
                       !.channel = Some(In_BookingCom), !.rating = Some(4),
                       !.reviewCategory = <<[category |-> In_Cleanliness,
                                             rating |-> Some(6)]>>,
                       !.publicReview = Some(In_StayWasGreat),
                       !.publishOnFlex = Some(TRUE),
                       !.submittedAt = Some("2024-03-01")],
    [BaseReview EXCEPT !.listingId = 3, !.listingName = Some(In_CedarRoom),
                       !.rating = None,
                       !.reviewCategory = <<[category |-> In_cleanliness, rating |-> None],
                                            [category |-> In_communication,
                                             rating |-> None]>>,
                       !.publicReview = Some(In_NoisyStreet),
                       !.submittedAt = None],
    [BaseReview EXCEPT !.rating = Some(10), !.channel = Some(In_GOOGLE),
                       !.reviewCategory = <<[category |-> In_communication,
                                             rating |-> Some(8)]>>,
                       !.publishOnFlex = Some(FALSE),
                       !.submittedAt = Some("2024-02-10")]>>

FilterCorpusOf(choice) ==
  [i \in DOMAIN choice |-> [FilterTemplates[choice[i]] EXCEPT !.id = FirstId + i - 1]]

FilterCorpora ==
  {FilterCorpusOf(choice) :
     choice \in UNION {[1..n -> DOMAIN FilterTemplates] : n \in 0..MaxReviews}}

\* the parameters that together make one predicate of matchesFilters
PredicateGroups ==
  {{"listingId"}, {"listingSlug"}, {"channel"}, {"type"}, {"status"}, {"approved"},
   {"minRating"}, {"maxRating"}, {"category", "minCategoryRating"},
   {"startDate", "endDate"}, {"search"}, {"sort"}}

\* requests that set the parameters of one predicate
SinglePredicateRequests ==
  {[NoParams EXCEPT !.listingId = Some("1")],
   [NoParams EXCEPT !.listingSlug = Some(Q_alpha_loft)],
   [NoParams EXCEPT !.channel = Some(Q_airbnb_google)],
   [NoParams EXCEPT !.type = Some(S_host_to_guest)],
   [NoParams EXCEPT !.status = Some(S_pending)],
   [NoParams EXCEPT !.approved = Some("true")],
   [NoParams EXCEPT !.approved = Some("false")],
   [NoParams EXCEPT !.minRating = Some("4.4")],
   [NoParams EXCEPT !.maxRating = Some("4.5")],
   [NoParams EXCEPT !.category = Some(In_Cleanliness)],
   [NoParams EXCEPT !.category = Some(In_communication),
                    !.minCategoryRating = Some("4")],
   [NoParams EXCEPT !.minCategoryRating = Some("4")],
   [NoParams EXCEPT !.startDate = Some("2024-02-10")],
   [NoParams EXCEPT !.search = Some(Q_great)],
   [NoParams EXCEPT !.sort = Some(Q_rating_asc)]}

SetParams(params) == {name \in DOMAIN params : params[name] # None}

\* two requests that set no parameter of the same predicate
DisjointPredicates(p1, p2) ==
  \A g \in PredicateGroups : SetParams(p1) \cap g = {} \/ SetParams(p2) \cap g = {}

\* the request that sets what either of two requests sets
Combined(p1, p2) ==
  [name \in DOMAIN NoParams |-> IF p1[name] # None THEN p1[name] ELSE p2[name]]

FilterPairs ==
  {pair \in SinglePredicateRequests \X SinglePredicateRequests :
     DisjointPredicates(pair[1], pair[2])}

FilterRequests ==
  {NoParams} \cup SinglePredicateRequests
  \cup {Combined(pair[1], pair[2]) : pair \in FilterPairs}

\* corpora of several listings for the pages, and the slugs of the property
\* pages
PageCorpora ==
  {FilterCorpusOf(<<4, 4, 2>>), FilterCorpusOf(<<1, 4, 2>>), FilterCorpusOf(<<1, 2>>),
   FilterCorpusOf(<<3, 1>>)}

Q_bravo_flat == <<"b","r","a","v","o","-","f","l","a","t">>
PropertySlugs == {Q_alpha_loft, Q_bravo_flat}

(***************************************************************************)
(* The server: state and handlers                                          *)
(***************************************************************************)
NoRequest == [op |-> "none"]

\* no dashboard is open in a browser
NoDashboard == [mounted |-> FALSE]
NoResponse == [status |-> 0]
EmptyStore == <<>>

\* app/api/reviews/hostaway/route.ts, module load: refreshApprovals()
LoadReviewsRoute ==
  /\ ~routeLoaded
  /\ routeLoaded' = TRUE
  /\ approvals' = refreshApprovals(corpus, approvals)
  /\ UNCHANGED <<corpus, request, response>>

\* the GET handler that keeps each resolved isApproved in the store
RECURSIVE KeepResolved(_, _)
KeepResolved(reviews, store) ==
  IF reviews = <<>> THEN store
  ELSE KeepResolved(Tail(reviews),
                    ensureInitialValue(store, String(Head(reviews).sourceId),
                                       Some(Head(reviews).isApproved)))

GetReviews_KeepsResolved(params) ==
  /\ routeLoaded
  /\ request' = [op |-> "GET", params |-> params]
  /\ response' = [status |-> 200,
                  body |-> buildHostawayResponse(corpus, approvals, params)]
  /\ approvals' = KeepResolved(NormalizeAll(corpus, approvals), approvals)
  /\ UNCHANGED <<corpus, routeLoaded>>

\* app/api/reviews/hostaway/route.ts, GET
GetReviews(params) ==
  /\ routeLoaded
  /\ request' = [op |-> "GET", params |-> params]
  /\ response' = [status |-> 200,
                  body |-> buildHostawayResponse(corpus, approvals, params)]
  /\ UNCHANGED <<corpus, approvals, routeLoaded>>

\* the POST handler that stores the truthiness of approved without testing
\* its type
PostApprove_FlagUnchecked(body) ==
  /\ request' = [op |-> "POST", body |-> body]
  /\ IF body = InvalidJson
     THEN /\ response' = [status |-> 500, body |-> [error |-> "Unable to update approval"]]
          /\ UNCHANGED approvals
     ELSE IF body.reviewId.t # "string" \/ body.reviewId.str = ""
     THEN /\ response' = [status |-> 400, body |-> [error |-> "Missing or invalid reviewId"]]
          /\ UNCHANGED approvals
     ELSE LET approved == CASE body.approved.t = "boolean" -> body.approved.bool
                            [] body.approved.t = "string" -> body.approved.str # ""
                            [] OTHER -> FALSE
          IN /\ approvals' = setApproval(approvals, body.reviewId.str, approved)
             /\ response' = [status |-> 200,
                             body |-> [reviewId |-> body.reviewId.str,
                                       approved |-> approved]]
  /\ UNCHANGED <<corpus, routeLoaded>>

\* app/api/reviews/hostaway/approve/route.ts, POST
PostApprove(body) ==
  /\ request' = [op |-> "POST", body |-> body]
  /\ IF body = InvalidJson
     THEN /\ response' = [status |-> 500, body |-> [error |-> "Unable to update approval"]]
          /\ UNCHANGED approvals
     ELSE IF body.reviewId.t # "string" \/ body.reviewId.str = ""
     THEN /\ response' = [status |-> 400, body |-> [error |-> "Missing or invalid reviewId"]]
          /\ UNCHANGED approvals
     ELSE IF body.approved.t # "boolean"
     THEN /\ response' = [status |-> 400,
                          body |-> [error |-> "Missing or invalid approved flag"]]
          /\ UNCHANGED approvals
     ELSE /\ approvals' = setApproval(approvals, body.reviewId.str, body.approved.bool)
          /\ response' = [status |-> 200,
                          body |-> [reviewId |-> body.reviewId.str,
                                    approved |-> body.approved.bool]]
  /\ UNCHANGED <<corpus, routeLoaded>>

\* app/dashboard/page.tsx and app/analytics/page.tsx: refreshApprovals(), then
\* buildHostawayResponse(DEFAULT_QUERY)
RenderDashboardPage ==
  LET seeded == refreshApprovals(corpus, approvals)
  IN /\ approvals' = seeded
     /\ request' = [op |-> "DASHBOARD"]
     /\ response' = [status |-> 200,
                     body |-> buildHostawayResponse(
                                corpus, seeded,
                                [NoParams EXCEPT !.sort = Some(Q_date_desc)])]
     /\ UNCHANGED <<corpus, routeLoaded>>

\* the property page that leaves approved=true out of its query
RenderPropertyPage_AnyApproval(slug) ==
  LET seeded == refreshApprovals(corpus, approvals)
  IN /\ approvals' = seeded
     /\ request' = [op |-> "PROPERTY", slug |-> slug]
     /\ response' = [status |-> 200,
                     body |-> buildHostawayResponse(
                                corpus, seeded,
                                [NoParams EXCEPT !.listingSlug = Some(slug),
                                                 !.sort = Some(Q_date_desc)])]
     /\ UNCHANGED <<corpus, routeLoaded>>

\* app/properties/[slug]/page.tsx for a known property: refreshApprovals(),
\* then buildHostawayResponse with listingSlug, approved=true and sort=date:desc
RenderPropertyPage(slug) ==
  LET seeded == refreshApprovals(corpus, approvals)
  IN /\ approvals' = seeded
     /\ request' = [op |-> "PROPERTY", slug |-> slug]
     /\ response' = [status |-> 200,
                     body |-> buildHostawayResponse(
                                corpus, seeded,
                                [NoParams EXCEPT !.listingSlug = Some(slug),
                                                 !.approved = Some("true"),
                                                 !.sort = Some(Q_date_desc)])]
     /\ UNCHANGED <<corpus, routeLoaded>>

\* app/api/reviews/hostaway/approve/route.ts, GET
GetApprovals ==
  /\ request' = [op |-> "APPROVALS"]
  /\ response' = [status |-> 200, body |-> [approvals |-> snapshot(approvals)]]
  /\ UNCHANGED <<corpus, approvals, routeLoaded>>

\* The service as deployed: one review at a time over the raw field values,
\* and a few corpora of several listings.
Init ==
  /\ corpus \in {<<r>> : r \in SingleReviews} \cup PageCorpora
  /\ approvals = EmptyStore
  /\ routeLoaded = FALSE
  /\ request = NoRequest
  /\ response = NoResponse
  /\ dashboard = NoDashboard

Next ==
  /\ \/ LoadReviewsRoute
     \/ \E params \in MainRequests : GetReviews(params)
     \/ \E body \in Bodies : PostApprove(body)
     \/ RenderDashboardPage
     \/ \E slug \in PropertySlugs : RenderPropertyPage(slug)
     \/ GetApprovals
  /\ UNCHANGED dashboard

Spec == Init /\ [][Next]_vars

\* The query surface: corpora of up to MaxReviews reviews, the store seeded at
\* module load, and one GET request over the filter and sort parameters
\* waiting to be answered.
InitQuery ==
  /\ corpus \in QueryCorpora
  /\ approvals = refreshApprovals(corpus, EmptyStore)
  /\ routeLoaded = TRUE
  /\ request \in {[op |-> "GET", params |-> params] : params \in QueryRequests}
  /\ response = NoResponse
  /\ dashboard = NoDashboard

NextQuery ==
  /\ response = NoResponse
  /\ GetReviews(request.params)
  /\ UNCHANGED dashboard

SpecQuery == InitQuery /\ [][NextQuery]_vars

(***************************************************************************)
(* Properties                                                              *)
(***************************************************************************)
\* the state right after a GET of the reviews route: its response is in hand
\* and was built from the store as it is now
Answered == request.op = "GET" /\ response # NoResponse

Reviews == response.body.reviews

\* the raw review of the corpus that a normalised review was made from
RawOf(r) == corpus[CHOOSE i \in DOMAIN corpus : corpus[i].id = r.sourceId]

\* C1: after the approval endpoint has accepted {reviewId: "hostaway-<N>",
\* approved: b} and stored it, the next response of the reviews route reports
\* isApproved = b for the review with source id N.  (The store holds a key
\* "hostaway-<N>" only by such a POST, with the value of the latest one.)
C1_OverrideReflected ==
  Answered =>
    \A i \in DOMAIN Reviews :
      Reviews[i].id \in DOMAIN approvals =>
        Reviews[i].isApproved = approvals[Reviews[i].id].value

\* C2: isApproved is the store's value for the key the normaliser looks up,
\* String(id), when the store has one; else the raw publishOnFlex when it is
\* a boolean; else whether the normalised rating is present and >= 4.4.
C2_ApprovalPrecedence ==
  Answered =>
    \A i \in DOMAIN Reviews :
      LET r == Reviews[i]
          raw == RawOf(r)
          key == ToString(r.sourceId)
      IN r.isApproved =
           IF key \in DOMAIN approvals THEN approvals[key].value
           ELSE IF raw.publishOnFlex \in {Some(TRUE), Some(FALSE)}
                THEN raw.publishOnFlex = Some(TRUE)
           ELSE r.normalizedRating # None /\ Val(r.normalizedRating) >= 440

\* C2 witness: a manager's override under the looked-up key has beaten a raw
\* publishOnFlex of true
C2_Witness ==
  /\ Answered
  /\ \E i \in DOMAIN Reviews :
       LET key == ToString(Reviews[i].sourceId)
       IN /\ key \in DOMAIN approvals
          /\ approvals[key] = [value |-> FALSE, source |-> "manager"]
          /\ RawOf(Reviews[i]).publishOnFlex = Some(TRUE)
          /\ Reviews[i].normalizedRating # None
          /\ Val(Reviews[i].normalizedRating) >= 440
          /\ Reviews[i].isApproved = FALSE

\* C3: every normalised review has its channel, type and status in the closed
\* enumerations, whatever the raw strings were.
C3_ClosedEnumerations ==
  Answered =>
    \A i \in DOMAIN Reviews :
      /\ Reviews[i].channel \in ReviewChannels
      /\ Reviews[i].type \in ReviewTypes
      /\ Reviews[i].status \in ReviewStatuses

\* C4: the normalised rating is null or within [0, 5] (0 to 500 hundredths).
C4_RatingInRange ==
  Answered =>
    \A i \in DOMAIN Reviews :
      \/ Reviews[i].normalizedRating = None
      \/ (Val(Reviews[i].normalizedRating) >= 0 /\ Val(Reviews[i].normalizedRating) <= 500)

Params == request.params
Listings == response.body.listings
AllNormalized == NormalizeAll(corpus, approvals)
IdsOf(seq) == {seq[i].id : i \in DOMAIN seq}

\* needle occurs in hay as one contiguous run
PhraseOccurs(hay, needle) ==
  \E k \in 0..(Len(hay) - Len(needle)) : SubSeq(hay, k + 1, k + Len(needle)) = needle

EveryTermOccurs(r, query) ==
  \A t \in Range(TermsOf(toLowerCase(query))) : PhraseOccurs(Haystack(r), t)

\* C5 as stated: with a search filter the reviews returned are those in whose
\* concatenated text every whitespace-split term of the query occurs, each on
\* its own, adjacent or not.
C5_TermsAnded ==
  (Answered /\ Truthy(Params.search)) =>
    IdsOf(Reviews) =
      {r.id : r \in {x \in Range(AllNormalized) : EveryTermOccurs(x, Val(Params.search))}}

\* C5 amended: the reviews returned are those in whose concatenated text the
\* whole lower-cased query occurs as one contiguous run; every term of the
\* query then occurs in them too.
C5_PhraseMatch ==
  (Answered /\ Truthy(Params.search)) =>
    /\ IdsOf(Reviews) =
         {r.id : r \in {x \in Range(AllNormalized) :
                          PhraseOccurs(Haystack(x), toLowerCase(Val(Params.search)))}}
    /\ \A i \in DOMAIN Reviews : EveryTermOccurs(Reviews[i], Val(Params.search))

\* C5 witness: a query of two terms has kept one review and dropped another
\* in which both terms occur, apart
C5_Witness ==
  /\ Answered
  /\ Truthy(Params.search)
  /\ Len(TermsOf(Val(Params.search))) >= 2
  /\ Reviews # <<>>
  /\ \E x \in Range(AllNormalized) :
       EveryTermOccurs(x, Val(Params.search)) /\ x.id \notin IdsOf(Reviews)

\* a missing rating sorts as negative infinity
RatingKey(r) == IF r.normalizedRating = None THEN -1000000 ELSE Val(r.normalizedRating)

NonIncreasing(seq, key(_)) ==
  \A i \in DOMAIN seq : \A j \in DOMAIN seq : i < j => key(seq[i]) >= key(seq[j])
NonDecreasing(seq, key(_)) ==
  \A i \in DOMAIN seq : \A j \in DOMAIN seq : i < j => key(seq[i]) <= key(seq[j])

\* C6: rating:desc gives non-increasing ratings with the unrated last,
\* rating:asc non-decreasing ratings with the unrated first.
C6_RatingOrder ==
  Answered =>
    /\ Params.sort = Some(Q_rating_desc) => NonIncreasing(Reviews, RatingKey)
    /\ Params.sort = Some(Q_rating_asc) => NonDecreasing(Reviews, RatingKey)

DateKey(r) == getTime(r.submittedAt)

\* C7: without a sort parameter the reviews come by descending submission
\* date; with a field and no direction they come descending on that field.
C7_DefaultOrder ==
  Answered =>
    /\ Params.sort = None => NonIncreasing(Reviews, DateKey)
    /\ Params.sort = Some(S_date) => NonIncreasing(Reviews, DateKey)
    /\ Params.sort = Some(S_rating) => NonIncreasing(Reviews, RatingKey)
    /\ Params.sort = Some(S_listing) =>
         \A i \in DOMAIN Reviews : \A j \in DOMAIN Reviews :
           i < j => localeCompare(Reviews[i].listingName, Reviews[j].listingName) >= 0
    /\ Params.sort = Some(S_channel) =>
         \A i \in DOMAIN Reviews : \A j \in DOMAIN Reviews :
           i < j => localeCompare(Reviews[i].channel, Reviews[j].channel) >= 0

\* the instant of a raw review's submission timestamp, None when it is
\* missing or does not parse
SourceDate(raw) == parseDate(raw.submittedAt)

\* C8: with startDate or endDate set, the reviews returned are those whose
\* source timestamp parses and lies within the bounds, both inclusive.
C8_UnparseableExcluded ==
  (Answered /\ (TruthyString(Params.startDate) \/ TruthyString(Params.endDate))) =>
    LET startDate == parseDate(Params.startDate)
        endDate == parseDate(Params.endDate)
    IN IdsOf(Reviews) =
         {ReviewIdOf(raw.id) : raw \in {x \in Range(corpus) :
            /\ SourceDate(x) # None
            /\ startDate # None => Val(SourceDate(x)) >= Val(startDate)
            /\ endDate # None => Val(SourceDate(x)) <= Val(endDate)}}

\* [min, max] of the source timestamps that parse, null when none does
ParseableRange(raws) ==
  LET dates == {Val(SourceDate(x)) : x \in {y \in raws : SourceDate(y) # None}}
  IN IF dates = {} THEN <<None, None>>
     ELSE <<Some(toISOString(Min(dates))), Some(toISOString(Max(dates)))>>

\* C9: the date range of the metrics is [min, max] over the source timestamps
\* of the set that parse, and null when none of them does.
C9_DateRangeParseableOnly ==
  Answered =>
    /\ <<response.body.metrics.filtered.dateRange.from,
         response.body.metrics.filtered.dateRange.to>>
         = ParseableRange({RawOf(Reviews[i]) : i \in DOMAIN Reviews})
    /\ <<response.body.metrics.overall.dateRange.from,
         response.body.metrics.overall.dateRange.to>> = ParseableRange(Range(corpus))

\* C10 as stated: the summaries come by average descending, those without an
\* average last, and any two with equal averages by listing name ascending.
C10_ListingOrder ==
  Answered =>
    \A i \in DOMAIN Listings : \A j \in DOMAIN Listings :
      i < j =>
        LET a == Listings[i]
            b == Listings[j]
        IN /\ a.averageRating = None => b.averageRating = None
           /\ (a.averageRating # None /\ b.averageRating # None) =>
                Val(a.averageRating) >= Val(b.averageRating)
           /\ a.averageRating = b.averageRating =>
                localeCompare(a.listingName, b.listingName) <= 0

\* where the first review of a listing stands in the review list
FirstPosition(listingId) ==
  Min({i \in DOMAIN Reviews : Reviews[i].listingId = listingId})

\* C10 amended: the summaries come by average descending, those without an
\* average last and among themselves by listing name ascending; two with
\* equal averages that are not null keep the order in which their listings
\* first appear in the review list.
C10_ListingOrderNullTies ==
  Answered =>
    \A i \in DOMAIN Listings : \A j \in DOMAIN Listings :
      i < j =>
        LET a == Listings[i]
            b == Listings[j]
        IN /\ a.averageRating = None => b.averageRating = None
           /\ (a.averageRating # None /\ b.averageRating # None) =>
                Val(a.averageRating) >= Val(b.averageRating)
           /\ (a.averageRating = None /\ b.averageRating = None) =>
                localeCompare(a.listingName, b.listingName) <= 0
           /\ (a.averageRating # None /\ a.averageRating = b.averageRating) =>
                FirstPosition(a.listingId) < FirstPosition(b.listingId)

\* C10 witness: two listings with the same average, the later-named first,
\* ahead of a listing without an average
C10_Witness ==
  /\ Answered
  /\ Len(Listings) >= 3
  /\ Listings[1].averageRating # None
  /\ Listings[1].averageRating = Listings[2].averageRating
  /\ localeCompare(Listings[1].listingName, Listings[2].listingName) > 0
  /\ Listings[3].averageRating = None

\* The approvals store on its own: its two writing methods, called in any
\* order with any key and value; request records the call.
StoreIds == {String(FirstId), String(FirstId + 1), ReviewIdOf(FirstId)}

\* ApprovalsStore.ensureInitialValue(id, fallback)
CallEnsureInitialValue(id, fallback) ==
  /\ approvals' = ensureInitialValue(approvals, id, fallback)
  /\ request' = [op |-> "ensureInitialValue", id |-> id, fallback |-> fallback]
  /\ UNCHANGED <<corpus, routeLoaded, response>>

\* ApprovalsStore.setApproval(id, value)
CallSetApproval(id, value) ==
  /\ approvals' = setApproval(approvals, id, value)
  /\ request' = [op |-> "setApproval", id |-> id, value |-> value]
  /\ UNCHANGED <<corpus, routeLoaded, response>>

InitStore ==
  /\ corpus = <<>>
  /\ approvals = EmptyStore
  /\ routeLoaded = FALSE
  /\ request = NoRequest
  /\ response = NoResponse
  /\ dashboard = NoDashboard

NextStore ==
  /\ \/ \E id \in StoreIds, fallback \in RawFlags : CallEnsureInitialValue(id, fallback)
     \/ \E id \in StoreIds, value \in BOOLEAN : CallSetApproval(id, value)
  /\ UNCHANGED dashboard

SpecStore == InitStore /\ [][NextStore]_vars

\* normalizeValueToTarget on its own: called with a value and a positive
\* scale, then with both doubled; request holds the arguments, response the
\* results.
MaxValue == 24
MaxScale == 12
ScaleValues == (0 - MaxValue)..MaxValue
PositiveScales == 1..MaxScale \cup {20, 100}

CallNormalizeValueToTarget ==
  /\ request.op = "normalizeValueToTarget"
  /\ response = NoResponse
  /\ response' = [status |-> 1,
                  result |-> normalizeValueToTarget(Some(request.value), request.scale)]
  /\ UNCHANGED <<corpus, approvals, routeLoaded, request>>

CallNormalizeValueToTargetDoubled ==
  /\ request.op = "normalizeValueToTarget"
  /\ response.status = 1
  /\ response' = [status |-> 2,
                  result |-> response.result,
                  doubled |-> normalizeValueToTarget(Some(request.value * 2),
                                                     request.scale * 2)]
  /\ UNCHANGED <<corpus, approvals, routeLoaded, request>>

InitScale ==
  /\ corpus = <<>>
  /\ approvals = EmptyStore
  /\ routeLoaded = FALSE
  /\ request \in {[op |-> "normalizeValueToTarget", value |-> v, scale |-> sc] :
                    v \in ScaleValues, sc \in PositiveScales}
  /\ response = NoResponse
  /\ dashboard = NoDashboard

NextScale ==
  /\ CallNormalizeValueToTarget \/ CallNormalizeValueToTargetDoubled
  /\ UNCHANGED dashboard

SpecScale == InitScale /\ [][NextScale]_vars

InitFilter ==
  /\ corpus \in FilterCorpora
  /\ approvals = refreshApprovals(corpus, EmptyStore)
  /\ routeLoaded = TRUE
  /\ request \in {[op |-> "GET", params |-> params] : params \in FilterRequests}
  /\ response = NoResponse
  /\ dashboard = NoDashboard

SpecFilter == InitFilter /\ [][NextQuery]_vars

(***************************************************************************)
(* Properties of the aggregates and the filters                            *)
(***************************************************************************)
\* the reviews of the response that a listing summary was built from
ReviewsOf(listing) == SelectSeq(Reviews, LAMBDA r : r.listingId = listing.listingId)

CategoryKeys(reviews) == {c.key : c \in Range(AllCategories(reviews))}

HasPresentValue(reviews, key) ==
  \E c \in Range(AllCategories(reviews)) : c.key = key /\ c.normalizedRating # None

\* C11 as stated: a category key seen in a listing's reviews without any
\* present normalised value has no entry in the listing's category averages.
C11_EmptyCategoryExcluded ==
  Answered =>
    \A i \in DOMAIN Listings :
      LET entries == Listings[i].categoryAverages
      IN \A key \in CategoryKeys(ReviewsOf(Listings[i])) :
           ~HasPresentValue(ReviewsOf(Listings[i]), key) =>
             \A k \in DOMAIN entries : entries[k].category # humanizeCategory(key)

\* C11 amended: every category key seen in a listing's reviews has one entry
\* in the listing's category averages; the entry of a key without any present
\* normalised value has a null average and a null normalised average, the
\* entry of any other key has both present.
C11_EmptyCategoryNull ==
  Answered =>
    \A i \in DOMAIN Listings :
      LET entries == Listings[i].categoryAverages
          keys == CategoryKeys(ReviewsOf(Listings[i]))
      IN /\ Len(entries) = Cardinality(keys)
         /\ \A key \in keys :
              \E k \in DOMAIN entries :
                /\ entries[k].category = humanizeCategory(key)
                /\ IF HasPresentValue(ReviewsOf(Listings[i]), key)
                   THEN entries[k].normalizedAverage # None /\ entries[k].average # None
                   ELSE entries[k].normalizedAverage = None /\ entries[k].average = None

\* C11 witness: one listing's averages hold a category with a null average,
\* another's a category with a value
C11_Witness ==
  /\ Answered
  /\ \E i \in DOMAIN Listings :
       \E k \in DOMAIN Listings[i].categoryAverages :
         Listings[i].categoryAverages[k].normalizedAverage = None
  /\ \E i \in DOMAIN Listings :
       \E k \in DOMAIN Listings[i].categoryAverages :
         Listings[i].categoryAverages[k].normalizedAverage # None

\* what the same corpus and store answer to a request without parameters
Unfiltered == buildHostawayResponse(corpus, approvals, NoParams)

\* C12: the vocabulary of meta.filters and the overall metrics of a response
\* are those of the response to any other request on the same corpus and
\* store: they equal those of the request without parameters.
C12_MetaFromFullCorpus ==
  Answered =>
    /\ response.body.meta.filters = Unfiltered.meta.filters
    /\ response.body.metrics.overall = Unfiltered.metrics.overall

\* C12 witness: a request whose filters kept some reviews and dropped one
\* that alone carries a channel of the vocabulary
C12_Witness ==
  /\ Answered
  /\ SetParams(Params) # {}
  /\ Reviews # <<>>
  /\ Len(Reviews) < Len(corpus)
  /\ \E c \in Range(response.body.meta.filters.channels) :
       \A i \in DOMAIN Reviews : Reviews[i].channel # c
  /\ response.body.metrics.filtered # response.body.metrics.overall

\* the reviews of a list that one pass of the filter with a request's
\* parameters keeps
FilterBy(reviews, params) ==
  LET filters == gatherFiltersFromSearchParams(params)
  IN SelectSeq(reviews, LAMBDA r : matchesFilters(r, filters))

\* the request that sets only those of a request's parameters that are in g
Only(params, g) ==
  [name \in DOMAIN NoParams |-> IF name \in g THEN params[name] ELSE None]

\* the predicates a request sets
SetPredicates(params) == {g \in PredicateGroups : SetParams(params) \cap g # {}}

\* C13: however the predicates a request sets are split into two requests,
\* the reviews returned are those that filtering the corpus by the first and
\* then the result by the second keeps; a request that sets no predicate
\* keeps every review.
C13_FilterComposition ==
  Answered =>
    /\ \A g \in SetPredicates(Params) :
         IdsOf(Reviews) =
           IdsOf(FilterBy(FilterBy(AllNormalized, Only(Params, g)),
                          Only(Params, DOMAIN NoParams \ g)))
    /\ SetPredicates(Params) \subseteq {{"sort"}} => IdsOf(Reviews) = IdsOf(AllNormalized)

\* C13 witness: a request of two predicates, each of which alone keeps a
\* review that the two together drop
C13_Witness ==
  /\ Answered
  /\ Reviews # <<>>
  /\ Cardinality(SetPredicates(Params)) = 2
  /\ "sort" \notin SetParams(Params)
  /\ \A g \in SetPredicates(Params) :
       IdsOf(FilterBy(AllNormalized, Only(Params, g))) \ IdsOf(Reviews) # {}

\* C14: with minRating set, every review returned has a normalised rating
\* and it is at least the bound; with maxRating set, every review returned
\* has a normalised rating and it is at most the bound.
C14_UnratedFailsBounds ==
  Answered =>
    LET minRating == parseFloatOrNull(Params.minRating)
        maxRating == parseFloatOrNull(Params.maxRating)
    IN \A i \in DOMAIN Reviews :
         /\ minRating # None =>
              /\ Reviews[i].normalizedRating # None
              /\ Val(Reviews[i].normalizedRating) >= Val(minRating)
         /\ maxRating # None =>
              /\ Reviews[i].normalizedRating # None
              /\ Val(Reviews[i].normalizedRating) <= Val(maxRating)

\* C14 witness: a rating bound has kept a rated review of a corpus that also
\* holds a review without a rating
C14_Witness ==
  /\ Answered
  /\ SetParams(Params) \cap {"minRating", "maxRating"} # {}
  /\ Reviews # <<>>
  /\ \E x \in Range(AllNormalized) : x.normalizedRating = None

\* the category ratings of a review whose key is the category asked for,
\* letter case aside
Carried(review, category) ==
  {c \in Range(review.categoryRatings) : toLowerCase(c.key) = toLowerCase(category)}

\* C15: with a category filter every review returned carries that category,
\* letter case aside, whether or not minCategoryRating is set; and when it
\* is set, the review's normalised rating for the category is present and at
\* least the bound.
C15_CategoryFilter ==
  (Answered /\ Truthy(Params.category)) =>
    LET bound == parseFloatOrNull(Params.minCategoryRating)
    IN \A i \in DOMAIN Reviews :
         /\ Carried(Reviews[i], Val(Params.category)) # {}
         /\ bound # None =>
              \E c \in Carried(Reviews[i], Val(Params.category)) :
                c.normalizedRating # None /\ Val(c.normalizedRating) >= Val(bound)

\* C15 witness: a category filter with a bound has kept a review and dropped
\* both one that carries the category unrated and one that does not carry it
C15_Witness ==
  /\ Answered
  /\ Truthy(Params.category)
  /\ Params.minCategoryRating # None
  /\ Reviews # <<>>
  /\ \E x \in Range(AllNormalized) :
       /\ x.id \notin IdsOf(Reviews)
       /\ \E c \in Carried(x, Val(Params.category)) : c.normalizedRating = None
  /\ \E x \in Range(AllNormalized) : Carried(x, Val(Params.category)) = {}

\* a category asked for in capitals has kept a review whose key is in small
\* letters and one whose key is capitalised
C15_CaseWitness ==
  /\ Answered
  /\ Params.category = Some(In_Cleanliness)
  /\ \E i \in DOMAIN Reviews :
       \E c \in Range(Reviews[i].categoryRatings) : c.key = In_cleanliness
  /\ \E i \in DOMAIN Reviews :
       \E c \in Range(Reviews[i].categoryRatings) : c.key = In_Cleanliness

\* the state right after a property page was rendered
PropertyRendered == request.op = "PROPERTY"

\* C16: every review a property page is rendered from is approved and of the
\* page's listing, whatever seeds and sets the store has been through; and
\* every review the route returns for approved=true is approved.
C16_PropertyPageApprovedOnly ==
  /\ PropertyRendered =>
       \A i \in DOMAIN Reviews :
         Reviews[i].isApproved = TRUE /\ Reviews[i].listingSlug = request.slug
  /\ (Answered /\ Params.approved = Some("true")) =>
       \A i \in DOMAIN Reviews : Reviews[i].isApproved = TRUE

\* C16 witness: after a manager's set, a property page shows a review and
\* leaves out both an unapproved review of its listing and a review of
\* another listing
C16_Witness ==
  /\ PropertyRendered
  /\ \E k \in DOMAIN approvals : approvals[k].source = "manager"
  /\ Reviews # <<>>
  /\ \E x \in Range(AllNormalized) : x.listingSlug = request.slug /\ ~x.isApproved
  /\ \E x \in Range(AllNormalized) : x.listingSlug # request.slug

\* ratio is count / total to two decimals: within half a hundredth of it
IsRatioOf(ratio, count, total) ==
  /\ 2 * ratio * total >= 2 * 100 * count - total
  /\ 2 * ratio * total <= 2 * 100 * count + total

\* C17: in the channel breakdown of a listing's reviews the counts add up to
\* the number of those reviews, every channel among them has exactly one
\* entry, with its count and with ratio = count / that number, and no other
\* channel has an entry; the breakdown of no reviews is empty.
C17_ChannelBreakdown ==
  /\ buildChannelBreakdown(<<>>) = <<>>
  /\ Answered =>
       \A i \in DOMAIN Listings :
         LET reviews == ReviewsOf(Listings[i])
             entries == Listings[i].channels
         IN /\ Sum([k \in DOMAIN entries |-> entries[k].count]) = Len(reviews)
            /\ {entries[k].channel : k \in DOMAIN entries}
                 = {reviews[j].channel : j \in DOMAIN reviews}
            /\ \A k \in DOMAIN entries :
                 /\ \A m \in DOMAIN entries :
                      entries[m].channel = entries[k].channel => m = k
                 /\ entries[k].count =
                      Cardinality({j \in DOMAIN reviews :
                                     reviews[j].channel = entries[k].channel})
                 /\ entries[k].count > 0
                 /\ IsRatioOf(entries[k].ratio, entries[k].count, Len(reviews))

\* C17 witness: a listing whose reviews came over two channels, in a
\* response that holds reviews of another listing too
C17_Witness ==
  /\ Answered
  /\ Len(Listings) >= 2
  /\ \E i \in DOMAIN Listings :
       /\ Len(ReviewsOf(Listings[i])) < Len(Reviews)
       /\ Len(Listings[i].channels) = 2
       /\ \A k \in DOMAIN Listings[i].channels : Listings[i].channels[k].ratio = 50

\* metrics of no reviews: zero counts, no average, no date range
IsEmptyMetrics(metrics) ==
  /\ metrics.totalReviews = 0
  /\ metrics.approvedReviews = 0
  /\ metrics.averageRating = None
  /\ metrics.normalizedAverageRating = None
  /\ metrics.dateRange.from = None
  /\ metrics.dateRange.to = None

\* C18: on an empty corpus the response has empty overall and filtered
\* metrics, no listing summaries and no reviews, whatever the request's
\* filters and sort.
C18_EmptyCorpus ==
  (Answered /\ corpus = <<>>) =>
    /\ IsEmptyMetrics(response.body.metrics.overall)
    /\ IsEmptyMetrics(response.body.metrics.filtered)
    /\ Listings = <<>>
    /\ Reviews = <<>>

\* C18 witness: an empty corpus has answered a request with a filter and one
\* with a sort
C18_Witness ==
  /\ Answered
  /\ corpus = <<>>
  /\ Params.sort # None
  /\ Cardinality(SetPredicates(Params)) = 2

\* a body that parses and whose reviewId is missing, empty or not a string,
\* or whose approved is not a boolean
Malformed(body) ==
  /\ body # InvalidJson
  /\ \/ body.reviewId.t # "string"
     \/ body.reviewId.str = ""
     \/ body.approved.t # "boolean"

WellFormed(body) ==
  /\ body # InvalidJson
  /\ body.reviewId.t = "string"
  /\ body.reviewId.str # ""
  /\ body.approved.t = "boolean"

\* a step of the POST handler: the one step that leaves a POST as the last
\* request without loading the reviews route
PostStep == request'.op = "POST" /\ routeLoaded' = routeLoaded

C20_StoreSemantics ==
  [][/\ \A id \in StoreIds :
          getApproval(approvals', id) =
            IF request'.op = "setApproval" /\ request'.id = id
            THEN Some(request'.value)
            ELSE IF /\ request'.op = "ensureInitialValue"
                    /\ request'.id = id
                    /\ getApproval(approvals, id) = None
                 THEN request'.fallback
                 ELSE getApproval(approvals, id)
     /\ (request'.op = "ensureInitialValue"
           /\ (request'.id \in DOMAIN approvals \/ request'.fallback = None))
         => approvals' = approvals
     /\ request'.op = "setApproval" => approvals'[request'.id].source = "manager"]_vars

\* C20 witness: ensureInitialValue with the opposite fallback has just been
\* called on a key a manager had set, and the manager's value stands
C20_Witness ==
  /\ request.op = "ensureInitialValue"
  /\ request.fallback = Some(TRUE)
  /\ request.id \in DOMAIN approvals
  /\ approvals[request.id] = [value |-> FALSE, source |-> "manager"]
  /\ \E k \in DOMAIN approvals : approvals[k].source = "initial"

(***************************************************************************)
(* Properties of the pipeline as a whole                                   *)
(***************************************************************************)
\* a step of the GET handler of the reviews route: the one step that leaves
\* a GET as the last request without loading the route
GetStep == request'.op = "GET" /\ routeLoaded' = routeLoaded

\* C21: a GET of the reviews route, which is one call of
\* buildHostawayResponse, leaves the approvals store as it was: every entry
\* unchanged and none added, whatever the filter and sort.
C21_PipelineReadsOnly ==
  [][GetStep => approvals' = approvals]_vars

\* C21 witness: the route has answered from a store that holds a seeded
\* entry and a manager's entry, resolving one review that has no entry
C21_Witness ==
  /\ Answered
  /\ \E k \in DOMAIN approvals : approvals[k].source = "manager"
  /\ \E k \in DOMAIN approvals : approvals[k].source = "initial"
  /\ \E i \in DOMAIN Reviews : String(Reviews[i].sourceId) \notin DOMAIN approvals

C23_EmptyBecomesNull ==
  Answered =>
    \A i \in DOMAIN Reviews :
      /\ Reviews[i].listingName # <<>>
      /\ Reviews[i].guestName # Some(<<>>)
      /\ Reviews[i].publicReview # Some(<<>>)
      /\ Reviews[i].privateReview # Some(<<>>)
      /\ Reviews[i].managerResponse # Some(<<>>)

\* the scale the magnitude of a raw value stands for
ScaleByMagnitude(value) ==
  CASE value <= 5 -> 5
    [] value > 5 /\ value <= 10 -> 10
    [] value > 10 /\ value <= 20 -> 20
    [] value > 20 /\ value <= 100 -> 100
    [] OTHER -> 5

\* C24: the scale of a normalised review is the raw ratingScale when that is
\* a positive number; else 5 when the raw rating is absent; else 5, 10, 20 or
\* 100 by the rating's magnitude and 5 beyond 100.  The normalised rating is
\* rating * 5 / scale to two decimals; a rating of 9 without a hint has
\* scale 10 and normalised rating 4.5, and so has a category rated 9.
C24_DetectScale ==
  Answered =>
    \A i \in DOMAIN Reviews :
      LET r == Reviews[i]
          raw == RawOf(r)
      IN /\ r.ratingScale =
              IF raw.ratingScale # None /\ Val(raw.ratingScale) > 0
              THEN Val(raw.ratingScale)
              ELSE IF raw.rating = None THEN 5
              ELSE ScaleByMagnitude(Val(raw.rating))
         /\ raw.rating = None => r.normalizedRating = None
         /\ raw.rating # None =>
              /\ r.normalizedRating # None
              /\ 2 * Val(r.normalizedRating) * r.ratingScale
                   >= 2 * 500 * Val(raw.rating) - r.ratingScale
              /\ 2 * Val(r.normalizedRating) * r.ratingScale
                   <= 2 * 500 * Val(raw.rating) + r.ratingScale
         /\ (raw.rating = Some(9) /\ raw.ratingScale = None) =>
              r.ratingScale = 10 /\ r.normalizedRating = Some(450)
         /\ \A k \in DOMAIN r.categoryRatings :
              r.categoryRatings[k].rating = Some(9) =>
                /\ r.categoryRatings[k].scale = 10
                /\ r.categoryRatings[k].normalizedRating = Some(450)

\* C24 witness: a review rated 9 on a hinted scale of 8, whose category
\* rated 9 without a hint is on the scale of 10
C24_Witness ==
  /\ Answered
  /\ \E i \in DOMAIN Reviews :
       /\ RawOf(Reviews[i]).rating = Some(9)
       /\ RawOf(Reviews[i]).ratingScale = Some(8)
       /\ Reviews[i].ratingScale = 8
       /\ \E k \in DOMAIN Reviews[i].categoryRatings :
            Reviews[i].categoryRatings[k].scale = 10

\* the category ratings with a key among a listing's reviews, in the order
\* the reviews and their categories are iterated
CategoriesOf(listing, key) ==
  SelectSeq(AllCategories(ReviewsOf(listing)), LAMBDA c : c.key = key)

\* an entry of category averages reports the scale and the average is the
\* normalised average * scale / 5 to two decimals
RescaledTo(entry, scale) ==
  /\ entry.scale = scale
  /\ entry.normalizedAverage # None =>
       /\ entry.average # None
       /\ 2 * 5 * Val(entry.average) >= 2 * Val(entry.normalizedAverage) * scale - 5
       /\ 2 * 5 * Val(entry.average) <= 2 * Val(entry.normalizedAverage) * scale + 5

\* C25 as stated: the entry of a category key reports the scale of the key's
\* last occurrence among the listing's reviews, and its original-scale
\* average is the normalised average rescaled to that scale.
C25_LastObservedScale ==
  Answered =>
    \A i \in DOMAIN Listings :
      \A key \in CategoryKeys(ReviewsOf(Listings[i])) :
        LET mine == CategoriesOf(Listings[i], key)
        IN \E k \in DOMAIN Listings[i].categoryAverages :
             /\ Listings[i].categoryAverages[k].category = humanizeCategory(key)
             /\ RescaledTo(Listings[i].categoryAverages[k], mine[Len(mine)].scale)

\* C25 amended: the entry of a category key reports the scale of the key's
\* first occurrence among the listing's reviews, in the order of the
\* response, and its original-scale average is the normalised average
\* rescaled to that scale.
C25_FirstObservedScale ==
  Answered =>
    \A i \in DOMAIN Listings :
      \A key \in CategoryKeys(ReviewsOf(Listings[i])) :
        LET mine == CategoriesOf(Listings[i], key)
        IN \E k \in DOMAIN Listings[i].categoryAverages :
             /\ Listings[i].categoryAverages[k].category = humanizeCategory(key)
             /\ RescaledTo(Listings[i].categoryAverages[k], mine[1].scale)

\* C25 witness: a listing whose reviews rate one category on the scale of 10
\* first and on the scale of 5 last, reported on the scale of 10
C25_Witness ==
  /\ Answered
  /\ \E i \in DOMAIN Listings :
       \E key \in CategoryKeys(ReviewsOf(Listings[i])) :
         LET mine == CategoriesOf(Listings[i], key)
         IN /\ mine[1].scale = 10
            /\ mine[Len(mine)].scale = 5
            /\ \E k \in DOMAIN Listings[i].categoryAverages :
                 /\ Listings[i].categoryAverages[k].scale = 10
                 /\ Listings[i].categoryAverages[k].average = Some(850)

\* C26: normalising a value on a positive scale and normalising twice the
\* value on twice the scale give the same result.
C26_ScaleInvariance ==
  (request.op = "normalizeValueToTarget" /\ response.status = 2) =>
    response.doubled = response.result

\* C26 witness: a value whose quotient is rounded, 7 on the scale of 9 being
\* 3.89, normalised both ways
C26_Witness ==
  /\ request.op = "normalizeValueToTarget"
  /\ request.value = 7 /\ request.scale = 9
  /\ response.status = 2
  /\ response.result = Some(389)
  /\ response.doubled = Some(389)

\* the normalised ratings of a list of reviews, in its order
RatingsOf(reviews) == [i \in DOMAIN reviews |-> reviews[i].normalizedRating]

Reversed(seq) == [i \in DOMAIN seq |-> seq[Len(seq) + 1 - i]]

\* what the same corpus and store answer to the same request sorted otherwise
SortedBy(sort) ==
  buildHostawayResponse(corpus, approvals, [Params EXCEPT !.sort = Some(sort)])

\* C27: the ratings of the reviews sorted by rating:asc, read backwards, are
\* the ratings of the same reviews sorted by rating:desc, and the other way
\* round.
C27_RatingSortsMirror ==
  Answered =>
    /\ Params.sort = Some(Q_rating_asc) =>
         Reversed(RatingsOf(Reviews)) = RatingsOf(SortedBy(Q_rating_desc).reviews)
    /\ Params.sort = Some(Q_rating_desc) =>
         Reversed(RatingsOf(Reviews)) = RatingsOf(SortedBy(Q_rating_asc).reviews)

\* C27 witness: three reviews sorted by rating:asc, two of different ratings
\* and one unrated
C27_Witness ==
  /\ Answered
  /\ Params.sort = Some(Q_rating_asc)
  /\ Len(Reviews) = 3
  /\ \E i \in DOMAIN Reviews : Reviews[i].normalizedRating = None
  /\ \E i \in DOMAIN Reviews : \E j \in DOMAIN Reviews :
       /\ Reviews[i].normalizedRating # None
       /\ Reviews[j].normalizedRating # None
       /\ Reviews[i].normalizedRating # Reviews[j].normalizedRating

RECURSIVE SumOf(_)
SumOf(numbers) == IF numbers = <<>> THEN 0 ELSE Head(numbers) + SumOf(Tail(numbers))

Metrics == response.body.metrics

\* C28: the reviews of a response are, each once, the normalised reviews of
\* the corpus that the filter keeps; the filtered total is their number and
\* the sum of the listings' totals; the filtered approved count is the number
\* of approved among them and the sum of the listings' approved counts; every
\* listing id among them has exactly one summary and no other id has one; the
\* filtered counts do not exceed the overall counts.
C28_ResponseConsistent ==
  Answered =>
    LET kept == FilterBy(AllNormalized, Params)
    IN /\ Len(Reviews) = Len(kept)
       /\ Range(Reviews) = Range(kept)
       /\ Metrics.filtered.totalReviews = Len(Reviews)
       /\ Metrics.filtered.totalReviews =
            SumOf([i \in DOMAIN Listings |-> Listings[i].totalReviews])
       /\ Metrics.filtered.approvedReviews =
            Cardinality({i \in DOMAIN Reviews : Reviews[i].isApproved})
       /\ Metrics.filtered.approvedReviews =
            SumOf([i \in DOMAIN Listings |-> Listings[i].approvedReviews])
       /\ Len(Listings) = Cardinality({Reviews[i].listingId : i \in DOMAIN Reviews})
       /\ {Listings[i].listingId : i \in DOMAIN Listings} =
            {Reviews[i].listingId : i \in DOMAIN Reviews}
       /\ Metrics.filtered.totalReviews <= Metrics.overall.totalReviews
       /\ Metrics.filtered.approvedReviews <= Metrics.overall.approvedReviews
       /\ Metrics.overall.totalReviews = Len(corpus)

\* C28 witness: a filter has kept two reviews, of two listings, one of them
\* approved, and dropped a third review, which is approved
C28_Witness ==
  /\ Answered
  /\ Len(Reviews) = 2
  /\ Len(corpus) = 3
  /\ Len(Listings) = 2
  /\ Metrics.filtered.approvedReviews = 1
  /\ Metrics.overall.approvedReviews = 2

(***************************************************************************)
(* The dashboard client: components/dashboard/dashboard-shell.tsx          *)
(***************************************************************************)
S_all == <<"a","l","l">>

DEFAULT_FILTERS ==
  [property |-> S_all, channel |-> S_all, timeRange |-> "all", minRating |-> 0,
   category |-> S_all, approvedOnly |-> FALSE, sort |-> Q_date_desc]

\* Number.prototype.toString on a rating of the slider, held in hundredths
NumberToString(n) ==
  IF n % 100 = 0 THEN ToString(n \div 100)
  ELSE ToString(n \div 100) \o "." \o ToString((n % 100) \div 10)

\* buildQuery(filters, datasetBounds), as the parameters the server reads from
\* the query string; with timeRange "all" no date bound is set
buildQuery(filters) ==
  [NoParams EXCEPT
     !.sort = Some(filters.sort),
     !.listingSlug = IF filters.property # S_all THEN Some(filters.property) ELSE None,
     !.channel = IF filters.channel # S_all THEN Some(filters.channel) ELSE None,
     !.category = IF filters.category # S_all THEN Some(filters.category) ELSE None,
     !.minCategoryRating = IF filters.category # S_all
                           THEN Some(NumberToString(filters.minRating)) ELSE None,
     !.minRating = IF filters.category = S_all /\ filters.minRating > 0
                   THEN Some(NumberToString(filters.minRating)) ELSE None,
     !.approved = IF filters.approvedOnly THEN Some("true") ELSE None]

LOAD_ERROR == "Unable to load the latest reviews. Please retry."
APPROVAL_ERROR == "Could not update approval status. Please try again."

\* the effect runs a render can start in a session, and the toggles
MaxFetches == 2
MaxToggles == 2

Fetches == dashboard.fetches
Posts == dashboard.posts
InFlight(calls) == {i \in DOMAIN calls : calls[i].stage # "settled"}

\* the effect of [filters, refreshNonce, datasetBounds] run again: the cleanup
\* of the run before aborts its controller, then fetchData starts with
\* setLoading(true), setError(null) and the fetch
RunFetchEffect(d, filters) ==
  [d EXCEPT
     !.fetches = Append([i \in DOMAIN d.fetches |-> [d.fetches[i] EXCEPT !.aborted = TRUE]],
                        [params |-> buildQuery(filters), aborted |-> FALSE,
                         stage |-> "sent", outcome |-> "none"]),
     !.loading = TRUE,
     !.error = None]

\* filterSetter(key)(value): setFilters((prev) => ({...prev, [key]: value}))
filterSetter(key, value) ==
  /\ dashboard.mounted
  /\ Len(Fetches) + Cardinality(InFlight(Posts)) < MaxFetches
  /\ LET filters == [dashboard.filters EXCEPT ![key] = value]
     IN dashboard' = RunFetchEffect([dashboard EXCEPT !.filters = filters], filters)
  /\ UNCHANGED <<corpus, approvals, routeLoaded, request, response>>

\* the reviews route answers a fetch that was not aborted
ServeFetch(i) ==
  /\ dashboard.mounted
  /\ i \in DOMAIN Fetches
  /\ Fetches[i].stage = "sent"
  /\ ~Fetches[i].aborted
  /\ GetReviews(Fetches[i].params)
  /\ dashboard' = [dashboard EXCEPT
                     !.fetches[i] = [params |-> @.params, aborted |-> @.aborted,
                                     stage |-> "answered", outcome |-> "none",
                                     payload |-> response'.body]]

\* fetchData after its awaits, the response being ok and its body read:
\* setData(payload), then finally
fetchData_Fulfilled(i) ==
  /\ dashboard.mounted
  /\ i \in DOMAIN Fetches
  /\ Fetches[i].stage = "answered"
  /\ ~Fetches[i].aborted
  /\ dashboard' = [dashboard EXCEPT
                     !.data = Fetches[i].payload,
                     !.loading = IF ~Fetches[i].aborted THEN FALSE ELSE @,
                     !.fetches[i] = [@ EXCEPT !.stage = "settled", !.outcome = "ok"]]
  /\ UNCHANGED <<corpus, approvals, routeLoaded, request, response>>

\* fetchData whose finally clears loading whether or not it was aborted
fetchData_Rejected_FinallyUnguarded(i) ==
  /\ dashboard.mounted
  /\ i \in DOMAIN Fetches
  /\ Fetches[i].stage # "settled"
  /\ dashboard' = [dashboard EXCEPT
                     !.error = IF ~Fetches[i].aborted THEN Some(LOAD_ERROR) ELSE @,
                     !.loading = FALSE,
                     !.fetches[i] = [@ EXCEPT
                                       !.stage = "settled",
                                       !.outcome = IF Fetches[i].aborted THEN "aborted"
                                                   ELSE "failed"]]
  /\ UNCHANGED <<corpus, approvals, routeLoaded, request, response>>

\* fetchData after an await that threw: the fetch or the reading of the body
\* was rejected, with an AbortError once the controller is aborted, or the
\* response was not ok; catch, then finally
fetchData_Rejected(i) ==
  /\ dashboard.mounted
  /\ i \in DOMAIN Fetches
  /\ Fetches[i].stage # "settled"
  /\ dashboard' = [dashboard EXCEPT
                     !.error = IF ~Fetches[i].aborted THEN Some(LOAD_ERROR) ELSE @,
                     !.loading = IF ~Fetches[i].aborted THEN FALSE ELSE @,
                     !.fetches[i] = [@ EXCEPT
                                       !.stage = "settled",
                                       !.outcome = IF Fetches[i].aborted THEN "aborted"
                                                   ELSE "failed"]]
  /\ UNCHANGED <<corpus, approvals, routeLoaded, request, response>>

\* handleToggleApproved(reviewId, approved) up to its await; the checkbox of a
\* review is one of data.reviews and is disabled while the review is pending
handleToggleApproved(reviewId, approved) ==
  /\ dashboard.mounted
  /\ Len(Posts) < MaxToggles
  /\ Len(Fetches) + Cardinality(InFlight(Posts)) < MaxFetches
  /\ \E r \in Range(dashboard.data.reviews) : r.id = reviewId /\ approved = ~r.isApproved
  /\ reviewId \notin dashboard.pending
  /\ dashboard' = [dashboard EXCEPT
                     !.pending = @ \cup {reviewId},
                     !.error = None,
                     !.posts = Append(@, [reviewId |-> reviewId, approved |-> approved,
                                          stage |-> "sent", status |-> 0,
                                          outcome |-> "none"])]
  /\ UNCHANGED <<corpus, approvals, routeLoaded, request, response>>

\* the approval route answers a POST
ServePost(j) ==
  /\ dashboard.mounted
  /\ j \in DOMAIN Posts
  /\ Posts[j].stage = "sent"
  /\ PostApprove([reviewId |-> JString(Posts[j].reviewId),
                  approved |-> JBoolean(Posts[j].approved)])
  /\ dashboard' = [dashboard EXCEPT
                     !.posts[j] = [@ EXCEPT !.stage = "answered",
                                            !.status = response'.status]]

\* handleToggleApproved whose finally empties the pending map
ToggleSettled_ClearsAll(d, j, ok) ==
  LET afterTry ==
        IF ok THEN [d EXCEPT !.refreshNonce = @ + 1]
        ELSE [d EXCEPT !.error = Some(APPROVAL_ERROR)]
      afterFinally ==
        [afterTry EXCEPT !.pending = {},
                         !.posts[j] = [@ EXCEPT !.stage = "settled",
                                                !.outcome = IF ok THEN "ok" ELSE "failed"]]
  IN IF ok THEN RunFetchEffect(afterFinally, afterFinally.filters) ELSE afterFinally

\* handleToggleApproved after its await: ok is whether the fetch was fulfilled
\* with an ok response; try or catch, then finally
ToggleSettled(d, j, ok) ==
  LET afterTry ==
        IF ok THEN [d EXCEPT !.refreshNonce = @ + 1]
        ELSE [d EXCEPT !.error = Some(APPROVAL_ERROR)]
      afterFinally ==
        [afterTry EXCEPT !.pending = @ \ {d.posts[j].reviewId},
                         !.posts[j] = [@ EXCEPT !.stage = "settled",
                                                !.outcome = IF ok THEN "ok" ELSE "failed"]]
  IN IF ok THEN RunFetchEffect(afterFinally, afterFinally.filters) ELSE afterFinally

\* the POST was answered
handleToggleApproved_Fulfilled(j) ==
  /\ dashboard.mounted
  /\ j \in DOMAIN Posts
  /\ Posts[j].stage = "answered"
  /\ dashboard' = ToggleSettled(dashboard, j, Posts[j].status = 200)
  /\ UNCHANGED <<corpus, approvals, routeLoaded, request, response>>

\* the POST, or its answer, was lost
handleToggleApproved_Rejected(j) ==
  /\ dashboard.mounted
  /\ j \in DOMAIN Posts
  /\ Posts[j].stage # "settled"
  /\ dashboard' = ToggleSettled(dashboard, j, FALSE)
  /\ UNCHANGED <<corpus, approvals, routeLoaded, request, response>>

\* the corpora a dashboard is opened on
DashboardCorpora == {FilterCorpusOf(<<4, 2>>)}

FilterChoices == {<<"approvedOnly", TRUE>>, <<"property", Q_alpha_loft>>}

\* app/dashboard/page.tsx has rendered DashboardShell with initialData and the
\* shell has mounted: the first run of the effect only sets mounted.current
InitDashboard ==
  /\ corpus \in DashboardCorpora
  /\ approvals = refreshApprovals(corpus, EmptyStore)
  /\ routeLoaded = TRUE
  /\ request = [op |-> "DASHBOARD"]
  /\ response = [status |-> 200,
                 body |-> buildHostawayResponse(
                            corpus, approvals,
                            [NoParams EXCEPT !.sort = Some(Q_date_desc)])]
  /\ dashboard = [mounted |-> TRUE, filters |-> DEFAULT_FILTERS,
                  data |-> response.body, loading |-> FALSE, error |-> None,
                  pending |-> {}, refreshNonce |-> 0, fetches |-> <<>>,
                  posts |-> <<>>]

NextDashboard ==
  \/ \E choice \in FilterChoices : filterSetter(choice[1], choice[2])
  \/ \E i \in 1..MaxFetches : ServeFetch(i)
  \/ \E i \in 1..MaxFetches : fetchData_Fulfilled(i)
  \/ \E i \in 1..MaxFetches : fetchData_Rejected(i)
  \/ \E id \in {ReviewIdOf(FirstId + n) : n \in 0..(MaxReviews - 1)}, approved \in BOOLEAN :
       handleToggleApproved(id, approved)
  \/ \E j \in 1..MaxToggles : ServePost(j)
  \/ \E j \in 1..MaxToggles : handleToggleApproved_Fulfilled(j)
  \/ \E j \in 1..MaxToggles : handleToggleApproved_Rejected(j)

SpecDashboard == InitDashboard /\ [][NextDashboard]_vars

(***************************************************************************)
(* Properties of the dashboard client                                      *)
(***************************************************************************)
\* fetch i settles in this step
FetchSettles(i) ==
  /\ i \in DOMAIN Fetches
  /\ Fetches[i].stage # "settled"
  /\ dashboard'.fetches[i].stage = "settled"

LatestFetch == Fetches[Len(Fetches)]

\* no fetch of the effect is in flight, and one was issued
FetchesSettled == Fetches # <<>> /\ InFlight(Fetches) = {}

\* a fetch that was aborted settles without replacing the data, setting the
\* error or clearing loading
AbortedFetchIsSilent ==
  \A i \in DOMAIN Fetches :
    (FetchSettles(i) /\ Fetches[i].aborted) =>
      /\ dashboard'.data = dashboard.data
      /\ dashboard'.error = dashboard.error
      /\ dashboard'.loading = dashboard.loading

\* the displayed data is the payload that answered the latest fetch
LatestDisplayed ==
  /\ "payload" \in DOMAIN LatestFetch
  /\ dashboard.data = LatestFetch.payload

\* C29 as stated: a fetch aborted by a later run of the effect never replaces
\* the data, sets the error or clears loading; and once every fetch has
\* settled, the data is the response to the latest fetch and loading is false.
C29_LatestResponseDisplayed ==
  [][/\ AbortedFetchIsSilent
     /\ FetchesSettled' => (LatestDisplayed' /\ ~dashboard'.loading)]_vars

\* C29 amended: a fetch aborted by a later run of the effect never replaces
\* the data, sets the error or clears loading; once every fetch has settled
\* loading is false and, when the latest fetch succeeded, the data is its
\* response; a latest fetch that fails leaves the data as it was, sets the
\* load error and clears loading.
C29_LatestSuccessDisplayed ==
  [][/\ AbortedFetchIsSilent
     /\ FetchesSettled' =>
          /\ ~dashboard'.loading
          /\ LatestFetch'.outcome \in {"ok", "failed"}
          /\ LatestFetch'.outcome = "ok" => LatestDisplayed'
     /\ \A i \in DOMAIN Fetches :
          (FetchSettles(i) /\ dashboard'.fetches[i].outcome = "failed") =>
            /\ i = Len(Fetches)
            /\ dashboard'.data = dashboard.data
            /\ dashboard'.error = Some(LOAD_ERROR)
            /\ ~dashboard'.loading]_vars

\* C29 witness: the first fetch was answered, then aborted by a change of
\* filters, and has settled; the second has succeeded and its response,
\* another than the first's, is displayed
C29_Witness ==
  /\ dashboard.mounted
  /\ Len(Fetches) = 2
  /\ Fetches[1].outcome = "aborted"
  /\ "payload" \in DOMAIN Fetches[1]
  /\ Fetches[2].outcome = "ok"
  /\ Fetches[2].payload # Fetches[1].payload
  /\ dashboard.data = Fetches[2].payload
  /\ ~dashboard.loading

\* POST j settles in this step
PostSettles(j) ==
  /\ j \in DOMAIN Posts
  /\ Posts[j].stage # "settled"
  /\ dashboard'.posts[j].stage = "settled"

====
